---- MODULE Spec2Model ----
(***************************************************************************)
(* Model of the account-transaction aggregation handler                    *)
(* (src/src/handlers/list-xero-account-transactions.handler.ts):           *)
(* withRetry and its helpers, the four row extractors, the account-name    *)
(* lookup and the two-batch orchestrator listXeroAccountTransactions.      *)
(* The token helper src/xero-auth.mjs (main, refreshFlow, browserFlow) is   *)
(* modelled by the variable cli and the specification SpecCli.             *)
(*                                                                         *)
(* JavaScript values are tagged records (JUndef, JNull, JNum, JStr, JObj,  *)
(* JArr) so that optional fields, truthiness and strict equality are       *)
(* computed as the code computes them.  A YYYY-MM-DD string is modelled by *)
(* the number yyyymmdd (fixed width, so numeric order is the string order) *)
(* and the empty string by 0.                                              *)
(***************************************************************************)
EXTENDS Integers, Sequences, FiniteSets, TLC

\* ------------------------------------------------------------------------
\* Program constants
\* ------------------------------------------------------------------------
PAGE_SIZE == 100
MJ_PAGE_SIZE == 1000
MAX_PAGES == 50
MAX_RETRIES == 5
RETRY_BUFFER_MS == 2000

\* ------------------------------------------------------------------------
\* JavaScript values
\* ------------------------------------------------------------------------
JUndef == [t |-> "undefined"]
JNull == [t |-> "null"]
JNaN == [t |-> "nan"]
JNum(n) == [t |-> "num", n |-> n]
JStr(s) == [t |-> "str", s |-> s]
JObj(f) == [t |-> "obj", o |-> f]
JArr(a) == [t |-> "arr", a |-> a]

\* v == null || v === undefined
Nullish(v) == v.t \in {"undefined", "null"}

\* Boolean(v)
Truthy(v) ==
  CASE v.t \in {"undefined", "null", "nan"} -> FALSE
    [] v.t = "num" -> v.n # 0
    [] v.t = "str" -> v.s # ""
    [] OTHER -> TRUE

\* v?.[k] : undefined unless v is an object that has the property
Get(v, k) == IF v.t = "obj" /\ k \in DOMAIN v.o THEN v.o[k] ELSE JUndef

\* v ?? d
OrElse(v, d) == IF Nullish(v) THEN d ELSE v

\* number-valued optional field with default:  v ?? 0
NumOr0(v) == IF Nullish(v) THEN 0 ELSE v.n

\* an array's length (arr?.length), undefined when there is no array
ArrItems(v) == IF v.t = "arr" THEN v.a ELSE <<>>

Abs(n) == IF n < 0 THEN -n ELSE n

\* ------------------------------------------------------------------------
\* Failure payloads the remote client can throw
\* ------------------------------------------------------------------------
Hdr(v) == JObj("retry-after" :> v)
Resp429(h) == JObj([response |-> JObj([statusCode |-> JNum(429), headers |-> h])])

E429_STR5 == Resp429(Hdr(JStr("5")))
E429_NUM5 == Resp429(Hdr(JNum(5)))
E429_STR0 == Resp429(Hdr(JStr("0")))
E429_NUM0 == Resp429(Hdr(JNum(0)))
E429_ABC == Resp429(Hdr(JStr("soon")))
E429_EMPTY == Resp429(Hdr(JStr("")))
E429_NOHDR == Resp429(JObj([date |-> JStr("now")]))
E429_NOHEADERS == JObj([response |-> JObj([statusCode |-> JNum(429)])])
E429_STATUS == JObj([response |-> JObj([status |-> JNum(429), headers |-> Hdr(JStr("30"))])])
JSON_429 == "{\"response\":{\"statusCode\":429,\"headers\":{\"retry-after\":\"5\"}}}"
E429_JSON == JStr(JSON_429)

JSON_500 == "{\"response\":{\"statusCode\":500,\"body\":\"oops\"}}"
E500_JSON == JStr(JSON_500)
E500 == JObj([response |-> JObj([statusCode |-> JNum(500), headers |-> Hdr(JStr("5"))])])
E_TEXT == JStr("socket hang up")
E_JSONNULL == JStr("null")
E_NORESP == JObj([message |-> JStr("ECONNRESET")])
E_STR429 == JObj([response |-> JObj([statusCode |-> JStr("429")])])
E_UNDEF == JUndef

RateLimitErrors ==
  {E429_STR5, E429_NUM5, E429_STR0, E429_NUM0, E429_ABC, E429_EMPTY,
   E429_NOHDR, E429_NOHEADERS, E429_STATUS, E429_JSON}
OtherErrors == {E500_JSON, E500, E_TEXT, E_JSONNULL, E_NORESP, E_STR429, E_UNDEF}
AllErrors == RateLimitErrors \cup OtherErrors

\* ------------------------------------------------------------------------
\* withRetry helpers
\* ------------------------------------------------------------------------

\* JSON.parse on the string payloads above: [ok, v], ok = FALSE when it throws
JsonParse(s) ==
  CASE s = JSON_429 -> [ok |-> TRUE, v |-> E429_STR5]
    [] s = JSON_500 ->
         [ok |-> TRUE,
          v |-> JObj([response |-> JObj([statusCode |-> JNum(500), body |-> JStr("oops")])])]
    [] s = "null" -> [ok |-> TRUE, v |-> JNull]
    [] s \in {"socket hang up", ""} -> [ok |-> FALSE, v |-> JUndef]

parseXeroError(error) ==
  IF error.t = "str"
    THEN IF JsonParse(error.s).ok THEN JsonParse(error.s).v ELSE JNull
    ELSE error

\* String(v) for the header values that occur
JString(v) == IF v.t = "num" THEN ToString(v.n) ELSE v.s

\* parseInt(s, 10) for decimal strings up to MaxHeaderSeconds and for
\* strings that do not start with a digit
MaxHeaderSeconds == 120
ParseInt10(s) ==
  IF \E n \in 0..MaxHeaderSeconds : ToString(n) = s
    THEN JNum(CHOOSE n \in 0..MaxHeaderSeconds : ToString(n) = s)
    ELSE JNaN

getRetryAfterMsOf(resp) ==
  LET retryAfter == Get(Get(resp, "headers"), "retry-after")
      seconds == IF Truthy(retryAfter) THEN ParseInt10(JString(retryAfter)) ELSE JNum(60)
  IN JNum((IF seconds.t = "nan" THEN 60 ELSE seconds.n) * 1000 + RETRY_BUFFER_MS)

\* the status is compared with == : the string "429" counts as 429
getRetryAfterMsLoose(error) ==
  LET resp == Get(parseXeroError(error), "response")
      Is429(v) == v = JNum(429) \/ v = JStr("429")
  IN IF Is429(Get(resp, "statusCode")) \/ Is429(Get(resp, "status"))
       THEN getRetryAfterMsOf(resp)
       ELSE JNull

getRetryAfterMs(error) ==
  LET resp == Get(parseXeroError(error), "response")
  IN IF Get(resp, "statusCode") = JNum(429) \/ Get(resp, "status") = JNum(429)
       THEN getRetryAfterMsOf(resp)
       ELSE JNull

\* the attempt limit is compared with <=
ShouldRetryInclusive(err, attempt) ==
  getRetryAfterMs(err) # JNull /\ attempt <= MAX_RETRIES

\* the catch block of withRetry: sleep and retry, or rethrow
ShouldRetry(err, attempt) ==
  getRetryAfterMs(err) # JNull /\ attempt < MAX_RETRIES

\* ------------------------------------------------------------------------
\* Account matcher and date normalisation
\* ------------------------------------------------------------------------

\* filterCodes / filterIds are JUndef or JArr(<<strings>>)
Includes(arr, s) == \E i \in 1..Len(arr) : arr[i] = s

\* the id filter is not consulted
lineMatchesAccountCodesOnly(lineAccountCode, lineAccountId, filterCodes, filterIds) ==
  IF Len(ArrItems(filterCodes)) # 0 /\ Truthy(lineAccountCode)
     /\ Includes(ArrItems(filterCodes), lineAccountCode.s)
    THEN TRUE
  ELSE Len(ArrItems(filterCodes)) = 0 /\ Len(ArrItems(filterIds)) = 0

lineMatchesAccount(lineAccountCode, lineAccountId, filterCodes, filterIds) ==
  IF Len(ArrItems(filterCodes)) # 0 /\ Truthy(lineAccountCode)
     /\ Includes(ArrItems(filterCodes), lineAccountCode.s)
    THEN TRUE
  ELSE IF Len(ArrItems(filterIds)) # 0 /\ Truthy(lineAccountId)
     /\ Includes(ArrItems(filterIds), lineAccountId.s)
    THEN TRUE
  ELSE Len(ArrItems(filterCodes)) = 0 /\ Len(ArrItems(filterIds)) = 0

\* a date value is JUndef, [t |-> "date", ymd] (a Date object, by its UTC day)
\* or [t |-> "isostr", ymd] (a string that starts with YYYY-MM-DD)
JDate(ymd) == [t |-> "date", ymd |-> ymd]
JIsoStr(ymd) == [t |-> "isostr", ymd |-> ymd]
formatDate(d) == IF d.t \in {"date", "isostr"} THEN d.ymd ELSE 0

\* ------------------------------------------------------------------------
\* Rows
\* ------------------------------------------------------------------------

\* debit / credit of a row from the signed amount posted to the account
DebitOf(netToAccount) == IF netToAccount > 0 THEN JNum(netToAccount) ELSE JNull
\* the credit side does not look at the sign
CreditOfUnsigned(netToAccount) ==
  IF netToAccount # 0 THEN JNum(Abs(netToAccount)) ELSE JNull
CreditOf(netToAccount) == IF netToAccount < 0 THEN JNum(Abs(netToAccount)) ELSE JNull

\* `${code} - ${name}`.trim() for a code without leading and a name without
\* trailing white space: an empty name leaves "code -"
CodeDashName(code, name) == IF name = "" THEN code \o " -" ELSE code \o " - " \o name

RECURSIVE Join(_, _)
Join(strs, sep) ==
  IF Len(strs) = 0 THEN ""
  ELSE IF Len(strs) = 1 THEN strs[1]
  ELSE strs[1] \o sep \o Join(Tail(strs), sep)

\* F applied to the value of v, which is computed once
WithValue(v, F(_)) == CHOOSE out \in {F(x) : x \in {v}} : TRUE

RECURSIVE FlatFrom(_, _)
FlatFrom(seqs, i) == IF i > Len(seqs) THEN <<>> ELSE seqs[i] \o FlatFrom(seqs, i + 1)

Flat(seqs) == WithValue(seqs, LAMBDA v : FlatFrom(v, 1))

MapSeq(s, F(_)) == [i \in 1..Len(s) |-> F(s[i])]

MatchingLines(lines, accountCodes, accountIds) ==
  SelectSeq(lines, LAMBDA li : lineMatchesAccount(li.accountCode, li.accountID,
                                                  accountCodes, accountIds))

\* one row of fetchInvoiceRows
InvoiceLineRow(inv, li) ==
  LET typeStr == JString(OrElse(inv.type, JStr("")))
      isAccPay == typeStr = "ACCPAY"
      lineAmt == NumOr0(li.lineAmount)
      netToAccount == IF isAccPay THEN lineAmt ELSE -lineAmt
      taxAmt == NumOr0(li.taxAmount)
  IN [date |-> formatDate(inv.date),
      source |-> IF isAccPay THEN "Purchase Invoice" ELSE "Sales Invoice",
      contactName |-> OrElse(Get(inv.contact, "name"), JNull),
      description |-> OrElse(li.description, JNull),
      invoiceNumber |-> OrElse(inv.invoiceNumber, JNull),
      reference |-> OrElse(inv.reference, JNull),
      debit |-> DebitOf(netToAccount),
      credit |-> CreditOf(netToAccount),
      net |-> lineAmt,
      gross |-> lineAmt + taxAmt,
      vat |-> taxAmt,
      accountCode |-> OrElse(li.accountCode, JNull),
      accountName |-> JNull,
      relatedAccount |-> JNull]

InvoiceRows(inv, accountCodes, accountIds) ==
  MapSeq(MatchingLines(ArrItems(inv.lineItems), accountCodes, accountIds),
         LAMBDA li : InvoiceLineRow(inv, li))

\* a credit note posts to the side of the invoice it reverses
CreditNoteLineRowAsInvoice(cn, li) ==
  LET typeStr == JString(OrElse(cn.type, JStr("")))
      isDebitToAccount == typeStr = "ACCPAYCREDIT"
      lineAmt == NumOr0(li.lineAmount)
      netToAccount == IF isDebitToAccount THEN lineAmt ELSE -lineAmt
      taxAmt == NumOr0(li.taxAmount)
  IN [date |-> formatDate(cn.date),
      source |-> IF typeStr = "ACCPAYCREDIT" THEN "Purchase Credit Note"
                                            ELSE "Sales Credit Note",
      contactName |-> OrElse(Get(cn.contact, "name"), JNull),
      description |-> OrElse(li.description, JNull),
      invoiceNumber |-> OrElse(cn.creditNoteNumber, JNull),
      reference |-> OrElse(cn.reference, JNull),
      debit |-> DebitOf(netToAccount),
      credit |-> CreditOf(netToAccount),
      net |-> lineAmt,
      gross |-> lineAmt + taxAmt,
      vat |-> taxAmt,
      accountCode |-> OrElse(li.accountCode, JNull),
      accountName |-> JNull,
      relatedAccount |-> JNull]

\* one row of fetchCreditNoteRows
CreditNoteLineRow(cn, li) ==
  LET typeStr == JString(OrElse(cn.type, JStr("")))
      isDebitToAccount == typeStr = "ACCRECCREDIT"
      lineAmt == NumOr0(li.lineAmount)
      netToAccount == IF isDebitToAccount THEN lineAmt ELSE -lineAmt
      taxAmt == NumOr0(li.taxAmount)
  IN [date |-> formatDate(cn.date),
      source |-> IF typeStr = "ACCPAYCREDIT" THEN "Purchase Credit Note"
                                            ELSE "Sales Credit Note",
      contactName |-> OrElse(Get(cn.contact, "name"), JNull),
      description |-> OrElse(li.description, JNull),
      invoiceNumber |-> OrElse(cn.creditNoteNumber, JNull),
      reference |-> OrElse(cn.reference, JNull),
      debit |-> DebitOf(netToAccount),
      credit |-> CreditOf(netToAccount),
      net |-> lineAmt,
      gross |-> lineAmt + taxAmt,
      vat |-> taxAmt,
      accountCode |-> OrElse(li.accountCode, JNull),
      accountName |-> JNull,
      relatedAccount |-> JNull]

CreditNoteRows(cn, accountCodes, accountIds) ==
  MapSeq(MatchingLines(ArrItems(cn.lineItems), accountCodes, accountIds),
         LAMBDA li : CreditNoteLineRow(cn, li))

\* the line-item side of one bank transaction
BankLineRow(bt, li) ==
  LET typeStr == JString(OrElse(bt.type, JStr("")))
      isSpend == typeStr = "SPEND"
      bankAcctCode == Get(bt.bankAccount, "code")
      bankAcctName == Get(bt.bankAccount, "name")
      lineAmt == NumOr0(li.lineAmount)
      netToAccount == IF isSpend THEN lineAmt ELSE -lineAmt
      taxAmt == NumOr0(li.taxAmount)
  IN [date |-> formatDate(bt.date),
      source |-> IF isSpend THEN "Spend Money" ELSE "Receive Money",
      contactName |-> OrElse(Get(bt.contact, "name"), JNull),
      description |-> OrElse(li.description, JNull),
      invoiceNumber |-> JNull,
      reference |-> OrElse(bt.reference, JNull),
      debit |-> DebitOf(netToAccount),
      credit |-> CreditOf(netToAccount),
      net |-> lineAmt,
      gross |-> lineAmt + taxAmt,
      vat |-> taxAmt,
      accountCode |-> OrElse(li.accountCode, JNull),
      accountName |-> JNull,
      relatedAccount |->
        IF Truthy(bankAcctCode)
          THEN JStr(CodeDashName(bankAcctCode.s, OrElse(bankAcctName, JStr("")).s))
          ELSE JNull]

\* the bank-account side takes the side of the line items
BankAccountRowLineSide(bt) ==
  LET typeStr == JString(OrElse(bt.type, JStr("")))
      isSpend == typeStr = "SPEND"
      bankAcctCode == Get(bt.bankAccount, "code")
      bankAcctName == Get(bt.bankAccount, "name")
      totalAmount == NumOr0(bt.total)
      netToAccount == IF isSpend THEN totalAmount ELSE -totalAmount
      lines == ArrItems(bt.lineItems)
      firstLineAccount == IF Len(lines) > 0 THEN lines[1].accountCode ELSE JUndef
  IN [date |-> formatDate(bt.date),
      source |-> IF isSpend THEN "Spend Money" ELSE "Receive Money",
      contactName |-> OrElse(Get(bt.contact, "name"), JNull),
      description |-> JNull,
      invoiceNumber |-> JNull,
      reference |-> OrElse(bt.reference, JNull),
      debit |-> DebitOf(netToAccount),
      credit |-> CreditOf(netToAccount),
      net |-> NumOr0(bt.subTotal),
      gross |-> totalAmount,
      vat |-> NumOr0(bt.totalTax),
      accountCode |-> OrElse(bankAcctCode, JNull),
      accountName |-> OrElse(bankAcctName, JNull),
      relatedAccount |-> OrElse(firstLineAccount, JNull)]

\* the synthetic bank-account side of one bank transaction
BankAccountRow(bt) ==
  LET typeStr == JString(OrElse(bt.type, JStr("")))
      isSpend == typeStr = "SPEND"
      bankAcctCode == Get(bt.bankAccount, "code")
      bankAcctName == Get(bt.bankAccount, "name")
      totalAmount == NumOr0(bt.total)
      subTotal == NumOr0(bt.subTotal)
      totalTax == NumOr0(bt.totalTax)
      netToAccount == IF isSpend THEN -totalAmount ELSE totalAmount
      lines == ArrItems(bt.lineItems)
      firstLineAccount == IF Len(lines) > 0 THEN lines[1].accountCode ELSE JUndef
      descs == SelectSeq(MapSeq(lines, LAMBDA l : l.description), Truthy)
  IN [date |-> formatDate(bt.date),
      source |-> IF isSpend THEN "Spend Money" ELSE "Receive Money",
      contactName |-> OrElse(Get(bt.contact, "name"), JNull),
      description |->
        IF Nullish(bt.lineItems) THEN JNull
        ELSE JStr(Join(MapSeq(descs, LAMBDA d : d.s), "; ")),
      invoiceNumber |-> JNull,
      reference |-> OrElse(bt.reference, JNull),
      debit |-> DebitOf(netToAccount),
      credit |-> CreditOf(netToAccount),
      net |-> subTotal,
      gross |-> totalAmount,
      vat |-> totalTax,
      accountCode |-> OrElse(bankAcctCode, JNull),
      accountName |-> OrElse(bankAcctName, JNull),
      relatedAccount |-> OrElse(firstLineAccount, JNull)]

\* the bank-account row is pushed twice
BankRowsTwiceBank(bt, accountCodes, accountIds) ==
  MapSeq(MatchingLines(ArrItems(bt.lineItems), accountCodes, accountIds),
         LAMBDA li : BankLineRow(bt, li))
  \o (IF lineMatchesAccount(Get(bt.bankAccount, "code"), Get(bt.bankAccount, "accountID"),
                            accountCodes, accountIds)
        THEN <<BankAccountRow(bt), BankAccountRow(bt)>>
        ELSE <<>>)

BankRows(bt, accountCodes, accountIds) ==
  MapSeq(MatchingLines(ArrItems(bt.lineItems), accountCodes, accountIds),
         LAMBDA li : BankLineRow(bt, li))
  \o (IF lineMatchesAccount(Get(bt.bankAccount, "code"), Get(bt.bankAccount, "accountID"),
                            accountCodes, accountIds)
        THEN <<BankAccountRow(bt)>>
        ELSE <<>>)

\* one row of fetchManualJournalRows
JournalLineRow(mj, line, relatedAccount) ==
  LET amt == NumOr0(line.lineAmount)
      taxAmt == NumOr0(line.taxAmount)
  IN [date |-> formatDate(mj.date),
      source |-> "Manual Journal",
      contactName |-> JNull,
      description |-> OrElse(line.description, OrElse(mj.narration, JNull)),
      invoiceNumber |-> JNull,
      reference |-> OrElse(mj.narration, JNull),
      debit |-> DebitOf(amt),
      credit |-> CreditOf(amt),
      net |-> amt,
      gross |-> amt + taxAmt,
      vat |-> taxAmt,
      accountCode |-> OrElse(line.accountCode, JNull),
      accountName |-> JNull,
      relatedAccount |-> relatedAccount]

JournalRows(mj, accountCodes, accountIds) ==
  LET allLines == ArrItems(mj.journalLines)
      matchingLines == MatchingLines(allLines, accountCodes, accountIds)
      otherLines ==
        SelectSeq(allLines, LAMBDA l : ~lineMatchesAccount(l.accountCode, l.accountID,
                                                           accountCodes, accountIds))
      relatedAccount ==
        IF Len(otherLines) > 0
          THEN JStr(OrElse(otherLines[1].accountCode, JStr("")).s)
          ELSE JNull
  IN MapSeq(matchingLines, LAMBDA line : JournalLineRow(mj, line, relatedAccount))

\* ------------------------------------------------------------------------
\* Remote data (the mocked accounting API) and call arguments
\* ------------------------------------------------------------------------
Extractors == {"Invoices", "CreditNotes", "BankTransactions", "ManualJournals"}
\* one batch-2 task moved into batch 1
Batch1WithBank == <<"Invoices", "CreditNotes", "Accounts", "BankTransactions">>
Batch1 == <<"Invoices", "CreditNotes", "Accounts">>
Batch2 == <<"BankTransactions", "ManualJournals">>
Tasks == Extractors \cup {"Accounts", "Probe"}
SeqRange(s) == {s[i] : i \in 1..Len(s)}

Line(code, amt, tax, desc) ==
  [accountCode |-> JStr(code), accountID |-> JStr("id-" \o code),
   lineAmount |-> JNum(amt), taxAmount |-> JNum(tax), description |-> desc]

INV_A ==
  [type |-> JStr("ACCPAY"), contact |-> JObj([name |-> JStr("Acme")]),
   date |-> JDate(20240101), invoiceNumber |-> JStr("INV-1"), reference |-> JUndef,
   lineItems |-> JArr(<<Line("400", 100, 20, JStr("widgets")), Line("200", 50, 0, JUndef)>>)]
INV_B ==
  [type |-> JStr("ACCREC"), contact |-> JUndef,
   date |-> JIsoStr(20240315), invoiceNumber |-> JUndef, reference |-> JStr("PO-7"),
   lineItems |-> JArr(<<Line("400", 70, 14, JStr("service"))>>)]
CN_A ==
  [type |-> JStr("ACCRECCREDIT"), contact |-> JObj([name |-> JStr("Acme")]),
   date |-> JDate(20240315), creditNoteNumber |-> JStr("CN-1"), reference |-> JUndef,
   lineItems |-> JArr(<<Line("400", 30, 6, JStr("refund"))>>)]
BT_A ==
  [type |-> JStr("SPEND"), contact |-> JObj([name |-> JStr("Shop")]),
   date |-> JDate(20240210), reference |-> JStr("card"),
   bankAccount |-> JObj([code |-> JStr("090"), name |-> JStr("Bank"),
                         accountID |-> JStr("id-090")]),
   total |-> JNum(100), subTotal |-> JNum(100), totalTax |-> JNum(0),
   lineItems |-> JArr(<<Line("400", 100, 0, JStr("stationery"))>>)]
MJ_A ==
  [date |-> JDate(20240210), narration |-> JStr("accrual"),
   journalLines |-> JArr(<<Line("400", 50, 0, JUndef), Line("200", -50, 0, JUndef)>>)]
ACCOUNTS_A ==
  <<[code |-> JStr("400"), name |-> JStr("Sales")],
    [code |-> JStr("090"), name |-> JStr("Bank")],
    [code |-> JUndef, name |-> JStr("Tracking")],
    [code |-> JStr("200"), name |-> JUndef]>>

\* documents that fill a page up to its length; they carry no lines
FillerDoc(t) ==
  CASE t \in {"Invoices", "CreditNotes"} ->
         [type |-> JStr("ACCREC"), contact |-> JUndef, date |-> JDate(20231231),
          invoiceNumber |-> JUndef, creditNoteNumber |-> JUndef, reference |-> JUndef,
          lineItems |-> JUndef]
    [] t = "BankTransactions" ->
         [type |-> JStr("RECEIVE"), contact |-> JUndef, date |-> JDate(20231231),
          reference |-> JUndef,
          bankAccount |-> JObj([code |-> JStr("999"), name |-> JStr("Petty"),
                                accountID |-> JStr("id-999")]),
          total |-> JNum(1), subTotal |-> JNum(1), totalTax |-> JNum(0),
          lineItems |-> JUndef]
    [] t = "ManualJournals" ->
         [date |-> JDate(20231231), narration |-> JUndef, journalLines |-> JUndef]

PageSizeOf(t) == IF t = "ManualJournals" THEN MJ_PAGE_SIZE ELSE PAGE_SIZE

\* data of one endpoint: `full` full pages, then one short page; the
\* documents `docs` head page 1, every other document is a FillerDoc
Data(full, docs) == [full |-> full, docs |-> docs]

Args(codes, ids, sourceType) ==
  [accountCodes |-> codes, accountIds |-> ids, sourceType |-> sourceType]

Remote(inv, cn, bt, mj) ==
  [Invoices |-> inv, CreditNotes |-> cn, BankTransactions |-> bt, ManualJournals |-> mj,
   Accounts |-> ACCOUNTS_A]

\* failure payloads of the orchestrator runs
E_RATE == E429_STR5
E_FATAL == E_TEXT
OrchErrors == {E_RATE, E_FATAL}

Scenarios ==
  { [args |-> Args(JUndef, JUndef, JUndef),
     remote |-> Remote(Data(0, <<INV_A, INV_B>>), Data(0, <<CN_A>>),
                       Data(0, <<BT_A>>), Data(0, <<MJ_A>>))],
    [args |-> Args(JArr(<<"400">>), JUndef, JUndef),
     remote |-> Remote(Data(1, <<INV_A>>), Data(0, <<CN_A>>),
                       Data(0, <<BT_A>>), Data(0, <<MJ_A>>))],
    [args |-> Args(JArr(<<"090">>), JArr(<<>>), JUndef),
     remote |-> Remote(Data(0, <<INV_A>>), Data(0, <<>>),
                       Data(1, <<BT_A>>), Data(0, <<MJ_A>>))],
    [args |-> Args(JUndef, JUndef, JStr("NOSUCHTYPE")),
     remote |-> Remote(Data(0, <<INV_A>>), Data(0, <<CN_A>>),
                       Data(0, <<BT_A>>), Data(0, <<MJ_A>>))],
    [args |-> Args(JUndef, JUndef, JStr("")),
     remote |-> Remote(Data(0, <<INV_A>>), Data(0, <<CN_A>>),
                       Data(0, <<BT_A>>), Data(0, <<MJ_A>>))],
    [args |-> Args(JUndef, JUndef, JStr("ACCPAY")),
     remote |-> Remote(Data(0, <<INV_A>>), Data(0, <<CN_A>>),
                       Data(0, <<BT_A>>), Data(0, <<MJ_A>>))],
    [args |-> Args(JArr(<<"777">>), JArr(<<"id-777">>), JUndef),
     remote |-> Remote(Data(1, <<INV_A>>), Data(0, <<CN_A>>),
                       Data(0, <<BT_A>>), Data(0, <<MJ_A>>))],
    [args |-> Args(JUndef, JUndef, JUndef),
     remote |-> Remote(Data(1, <<INV_A>>), Data(0, <<CN_A>>),
                       Data(0, <<BT_A>>), Data(0, <<MJ_A>>))] }
  \cup
  { [args |-> Args(JUndef, JArr(<<"id-400">>), JStr("MANJOURNAL")),
     remote |-> Remote(Data(0, <<INV_A>>), Data(0, <<CN_A>>),
                       Data(0, <<BT_A>>), Data(full, <<MJ_A>>))]
      : full \in {MAX_PAGES - 1, MAX_PAGES, MAX_PAGES + 1} }

\* ------------------------------------------------------------------------
\* State
\* ------------------------------------------------------------------------
VARIABLES
  args,            \* accountCodes, accountIds, sourceType of the call
  remote,          \* data served by the endpoints
  errs,            \* failure payloads the remote client may throw
  pc,              \* position of listXeroAccountTransactions
  authCalls,       \* number of xeroClient.authenticate() calls
  task,            \* per task: promise state and the locals of its function
  requested,       \* per task: has its endpoint received a request
  lastResp,        \* per task: last outcome its endpoint produced
  warnings,        \* local `warnings`
  rowArrays,       \* local `rowArrays`
  accountNameMap,  \* local `accountNameMap`
  envelope,        \* value returned to the caller
  auth,            \* state of the promise of xeroClient.authenticate()
  fnIn,            \* document and filters handed to one extractor loop body
  fnOut,           \* rows that loop body pushed
  cli              \* one run of xero-auth.mjs: main's position, locals and files

inputs == <<args, remote, errs>>
harness == <<fnIn, fnOut>>
vars == <<args, remote, errs, pc, authCalls, task, requested, lastResp,
          warnings, rowArrays, accountNameMap, envelope, auth, fnIn, fnOut, cli>>

\* xero-auth.mjs is not running
NoCli ==
  [pc |-> "off", forceLogin |-> FALSE, config |-> "ok", refreshFile |-> JNull,
   hadToken |-> FALSE,
   tokens |-> JNull, refreshTried |-> FALSE, refreshOutcome |-> "none",
   browserStarted |-> FALSE, browserOutcome |-> "none", stray |-> 0,
   bearer |-> JStr("at-old")]

NoResp == [kind |-> "none"]
OkResp == [kind |-> "ok"]
ErrResp(e) == [kind |-> "err", err |-> e]

\* page is the number of the last page the function asked for (0: none),
\* where the predicate its remote calls carry
IdleTask ==
  [st |-> "idle", page |-> 0, where |-> "", attempt |-> 0, calls |-> 0, wait |-> 0,
   rows |-> <<>>, scanned |-> 0, value |-> JUndef, reason |-> JUndef]

Fulfilled(v) == [IdleTask EXCEPT !.st = "fulfilled", !.value = v]
Rejected(e) == [IdleTask EXCEPT !.st = "rejected", !.reason = e]
Settled(tk) == tk.st \in {"fulfilled", "rejected"}

\* ------------------------------------------------------------------------
\* Extractors and account-name lookup
\* ------------------------------------------------------------------------
OwnTypes(t) ==
  CASE t = "Invoices" -> {"ACCREC", "ACCPAY"}
    [] t = "CreditNotes" -> {"ACCRECCREDIT", "ACCPAYCREDIT"}
    [] t = "BankTransactions" -> {"CASHREC", "CASHPAID"}
    [] t = "ManualJournals" -> {"MANJOURNAL"}

\* the first statement of each extractor: return empty without a request
ReturnsEmpty(t, sourceType) ==
  t \in Extractors /\ Truthy(sourceType) /\ sourceType.s \notin OwnTypes(t)

FetchResult(rows, truncated, scanned) ==
  [rows |-> rows, truncated |-> truncated, scanned |-> scanned]

\* truncated is set as soon as the last page asked for is page 50
ReturnValueAtCap(t, rows, page, scanned) ==
  IF t = "ManualJournals"
    THEN FetchResult(rows, page >= MAX_PAGES, scanned)
    ELSE JArr(rows)

\* the value an extractor returns with its accumulated rows
ReturnValue(t, rows, page, scanned) ==
  IF t = "ManualJournals"
    THEN FetchResult(rows, page > MAX_PAGES, scanned)
    ELSE JArr(rows)

\* fromDate and toDate of the call
FromDate == 20240101
ToDate == 20241231

\* buildDateWhere: the parts of YYYY-MM-DD as numbers
DateTimeOf(ymd) ==
  "DateTime(" \o ToString(ymd \div 10000) \o "," \o ToString((ymd \div 100) % 100)
  \o "," \o ToString(ymd % 100) \o ")"
buildDateWhere(fromDate, toDate) ==
  "Date>=" \o DateTimeOf(fromDate) \o "&&Date<=" \o DateTimeOf(toDate)

\* the local `where` of each extractor
WhereOf(t, sourceType) ==
  buildDateWhere(FromDate, ToDate) \o
  CASE t = "Invoices" ->
         "&&Status!=\"DRAFT\"&&Status!=\"DELETED\"" \o
         (IF sourceType = JStr("ACCREC") THEN "&&Type==\"ACCREC\""
          ELSE IF sourceType = JStr("ACCPAY") THEN "&&Type==\"ACCPAY\"" ELSE "")
    [] t = "CreditNotes" ->
         "&&Status!=\"DRAFT\"&&Status!=\"DELETED\"" \o
         (IF sourceType = JStr("ACCRECCREDIT") THEN "&&Type==\"ACCRECCREDIT\""
          ELSE IF sourceType = JStr("ACCPAYCREDIT") THEN "&&Type==\"ACCPAYCREDIT\"" ELSE "")
    [] t = "BankTransactions" ->
         "&&Status!=\"DELETED\"" \o
         (IF sourceType = JStr("CASHREC") THEN "&&Type==\"RECEIVE\""
          ELSE IF sourceType = JStr("CASHPAID") THEN "&&Type==\"SPEND\"" ELSE "")
    [] t = "ManualJournals" -> "&&Status!=\"DRAFT\""

\* the attempt counter is carried over to the next page
FirstRequestKeepAttempt(tk, page) ==
  [tk EXCEPT !.st = "waiting", !.page = page, !.calls = @ + 1, !.wait = 0]

\* first request of withRetry: attempt 0
FirstRequest(tk, page) ==
  [tk EXCEPT !.st = "waiting", !.page = page, !.attempt = 0, !.calls = 1, !.wait = 0]

\* the sourceType gate is missing
StartTaskNoGate(t, a) == FirstRequest(IdleTask, 1)

\* calling the async function: runs up to its first await
StartTask(t, a) ==
  IF ReturnsEmpty(t, a.sourceType)
    THEN Fulfilled(ReturnValue(t, <<>>, 1, 0))
    ELSE FirstRequest([IdleTask EXCEPT !.where = IF t \in Extractors
                                                  THEN WhereOf(t, a.sourceType) ELSE ""], 1)

PageLen(data, size, page) ==
  IF page <= data.full THEN size
  ELSE IF page = data.full + 1 /\ data.full = 0 THEN Len(data.docs)
  ELSE 0

PageDocs(data, page) == IF page = 1 THEN data.docs ELSE <<>>

DocRows(t, doc, a) ==
  CASE t = "Invoices" -> InvoiceRows(doc, a.accountCodes, a.accountIds)
    [] t = "CreditNotes" -> CreditNoteRows(doc, a.accountCodes, a.accountIds)
    [] t = "BankTransactions" -> BankRows(doc, a.accountCodes, a.accountIds)
    [] t = "ManualJournals" -> JournalRows(doc, a.accountCodes, a.accountIds)

\* rows pushed by the for loop over one page
PageRows(t, data, page, a) ==
  LET docs == PageDocs(data, page)
      nFill == PageLen(data, PageSizeOf(t), page) - Len(docs)
  IN Flat(MapSeq(docs, LAMBDA d : DocRows(t, d, a)))
     \o WithValue(DocRows(t, FillerDoc(t), a),
                  LAMBDA fill : IF fill = <<>> THEN <<>> ELSE Flat([i \in 1..nFill |-> fill]))

\* the loop runs while page < MAX_PAGES
ExtractorOnPageShort(t, tk, data, a) ==
  LET len == PageLen(data, PageSizeOf(t), tk.page)
      rows == tk.rows \o PageRows(t, data, tk.page, a)
      scanned == IF t = "ManualJournals" THEN tk.scanned + len ELSE 0
      page == IF len < PageSizeOf(t) THEN tk.page ELSE tk.page + 1
  IN IF len < PageSizeOf(t) \/ page >= MAX_PAGES
       THEN [Fulfilled(ReturnValue(t, rows, page, scanned)) EXCEPT !.page = tk.page]
       ELSE FirstRequest([tk EXCEPT !.rows = rows, !.scanned = scanned], page)

\* the loop also ends on a page that gave no row
ExtractorOnPageStopEmpty(t, tk, data, a) ==
  LET len == PageLen(data, PageSizeOf(t), tk.page)
      rows == tk.rows \o PageRows(t, data, tk.page, a)
      scanned == IF t = "ManualJournals" THEN tk.scanned + len ELSE 0
      page == IF len < PageSizeOf(t) THEN tk.page ELSE tk.page + 1
  IN IF len < PageSizeOf(t) \/ page > MAX_PAGES \/ PageRows(t, data, tk.page, a) = <<>>
       THEN [Fulfilled(ReturnValue(t, rows, page, scanned)) EXCEPT !.page = tk.page]
       ELSE FirstRequest([tk EXCEPT !.rows = rows, !.scanned = scanned], page)

\* the loop has no page cap
ExtractorOnPageNoCap(t, tk, data, a) ==
  LET len == PageLen(data, PageSizeOf(t), tk.page)
      rows == tk.rows \o PageRows(t, data, tk.page, a)
      scanned == IF t = "ManualJournals" THEN tk.scanned + len ELSE 0
      page == IF len < PageSizeOf(t) THEN tk.page ELSE tk.page + 1
  IN IF len < PageSizeOf(t)
       THEN [Fulfilled(ReturnValue(t, rows, page, scanned)) EXCEPT !.page = tk.page]
       ELSE FirstRequest([tk EXCEPT !.rows = rows, !.scanned = scanned], page)

\* an extractor's loop body after a page arrived, up to the next await
ExtractorOnPage(t, tk, data, a) ==
  LET len == PageLen(data, PageSizeOf(t), tk.page)
      scanned == IF t = "ManualJournals" THEN tk.scanned + len ELSE 0
      page == IF len < PageSizeOf(t) THEN tk.page ELSE tk.page + 1
  IN WithValue(tk.rows \o PageRows(t, data, tk.page, a), LAMBDA rows :
       IF len < PageSizeOf(t) \/ page > MAX_PAGES
         THEN [Fulfilled(ReturnValue(t, rows, page, scanned)) EXCEPT !.page = tk.page]
         ELSE FirstRequest([tk EXCEPT !.rows = rows, !.scanned = scanned], page))

\* buildAccountNameMap: code -> name, later accounts overwrite earlier ones
AccountMap(accounts) ==
  LET withCode == SelectSeq(accounts, LAMBDA acct : Truthy(acct.code))
      Last(c) == CHOOSE i \in 1..Len(withCode) :
                   /\ withCode[i].code.s = c
                   /\ \A j \in (i + 1)..Len(withCode) : withCode[j].code.s # c
  IN [c \in {withCode[i].code.s : i \in 1..Len(withCode)} |->
        OrElse(withCode[Last(c)].name, JStr("")).s]

JMap(m) == [t |-> "map", m |-> m]

\* continuation of a task after its remote call returned
OnResult(t, tk, rem, a) ==
  CASE t \in Extractors -> ExtractorOnPage(t, tk, rem[t], a)
    [] t = "Accounts" -> Fulfilled(JMap(AccountMap(rem.Accounts)))
    [] t = "Probe" -> Fulfilled(JStr("result"))

\* a failure after the first page returns the rows collected so far
OnErrorKeepRows(tk, err) ==
  IF ShouldRetry(err, tk.attempt)
    THEN [tk EXCEPT !.st = "sleeping", !.wait = getRetryAfterMs(err).n]
  ELSE IF tk.page > 1
    THEN [Fulfilled([t |-> "arr", a |-> tk.rows, rows |-> tk.rows,
                     truncated |-> FALSE, scanned |-> tk.scanned])
            EXCEPT !.page = tk.page]
  ELSE [Rejected(err) EXCEPT !.page = tk.page]

\* catch block of withRetry
OnError(tk, err) ==
  IF ShouldRetry(err, tk.attempt)
    THEN [tk EXCEPT !.st = "sleeping", !.wait = getRetryAfterMs(err).n]
    ELSE [Rejected(err) EXCEPT !.page = tk.page]

\* the retry does not count the attempt
OnWakeNoCount(tk) == [tk EXCEPT !.st = "waiting", !.wait = 0]

\* after sleep(waitMs): continue, attempt++, call fn() again
OnWake(tk) ==
  [tk EXCEPT !.st = "waiting", !.attempt = @ + 1, !.calls = @ + 1, !.wait = 0]

\* ------------------------------------------------------------------------
\* Orchestrator helpers
\* ------------------------------------------------------------------------

\* helpers/format-error.js is not part of the sources at hand: a total
\* function to a message string
formatError(error) ==
  IF error.t = "str" THEN error.s
  ELSE IF Get(error, "message").t = "str" THEN Get(error, "message").s
  ELSE "An unexpected error occurred"

FailureWarning(t, reason) ==
  CASE t = "Invoices" -> "Invoices endpoint failed: " \o formatError(reason)
    [] t = "CreditNotes" -> "Credit Notes endpoint failed: " \o formatError(reason)
    [] t = "Accounts" -> "Account name lookup failed: " \o formatError(reason)
    [] t = "BankTransactions" -> "Bank Transactions endpoint failed: " \o formatError(reason)
    [] t = "ManualJournals" -> "Manual Journals endpoint failed: " \o formatError(reason)

TruncationWarning(scanned) ==
  "Manual Journals results may be incomplete: scanned " \o ToString(scanned)
  \o " journals but hit the pagination limit. "
  \o "Try narrowing the date range for complete results."

\* rows pushed to rowArrays / warnings pushed for one settled extractor
PushedRows(t, tk) ==
  IF tk.st = "fulfilled"
    THEN <<IF t = "ManualJournals" THEN tk.value.rows ELSE tk.value.a>>
    ELSE <<>>

\* a rejected task leaves no warning
PushedWarningsSilent(t, tk) ==
  IF tk.st = "fulfilled" /\ t = "ManualJournals" /\ tk.value.truncated
    THEN <<TruncationWarning(tk.value.scanned)>>
    ELSE <<>>

\* every extractor that stopped at the page cap leaves a warning
PushedWarningsCapNoted(t, tk) ==
  IF tk.st = "rejected" THEN <<FailureWarning(t, tk.reason)>>
  ELSE IF t = "ManualJournals" /\ tk.value.truncated
    THEN <<TruncationWarning(tk.value.scanned)>>
  ELSE IF t \in Extractors /\ tk.page = MAX_PAGES
    THEN <<"Results may be incomplete: hit the pagination limit.">>
  ELSE <<>>

PushedWarnings(t, tk) ==
  IF tk.st = "rejected" THEN <<FailureWarning(t, tk.reason)>>
  ELSE IF t = "ManualJournals" /\ tk.value.truncated
    THEN <<TruncationWarning(tk.value.scanned)>>
  ELSE <<>>

EmptyMap == [c \in {} |-> ""]

\* s.includes(" - ") for the strings that occur as relatedAccount
SepCodes == {"400", "090", "200", "999", ""}
SepNames == {"Sales", "Bank", "Petty", "Tracking"}
IncludesSep(s) == \E c \in SepCodes, n \in SepNames : s = c \o " - " \o n

\* the enrichment loop body
Enrich(row, map) ==
  LET name == IF Truthy(row.relatedAccount) /\ row.relatedAccount.s \in DOMAIN map
                THEN map[row.relatedAccount.s] ELSE ""
  IN [row EXCEPT
        !.accountName =
          IF Truthy(row.accountCode) /\ ~Truthy(row.accountName)
            THEN IF row.accountCode.s \in DOMAIN map
                   THEN JStr(map[row.accountCode.s]) ELSE JNull
            ELSE @,
        !.relatedAccount =
          IF Truthy(@) /\ ~IncludesSep(@.s) /\ name # ""
            THEN JStr(@.s \o " - " \o name)
            ELSE @]

\* the merged rows are returned as collected
NoSort(rows) == rows

\* allRows.sort((a, b) => b.date.localeCompare(a.date)): stable, descending
InsertByDateDesc(sorted, row) ==
  LET before == {i \in 0..Len(sorted) : \A j \in 1..i : sorted[j].date >= row.date}
      k == CHOOSE i \in before : \A j \in before : j <= i
  IN SubSeq(sorted, 1, k) \o <<row>> \o SubSeq(sorted, k + 1, Len(sorted))

\* the first n rows in sorted order
RECURSIVE SortPrefix(_, _)
SortPrefix(rows, n) ==
  IF n = 0 THEN <<>>
  ELSE WithValue(SortPrefix(rows, n - 1), LAMBDA s : InsertByDateDesc(s, rows[n]))

SortByDateDesc(rows) == WithValue(rows, LAMBDA r : SortPrefix(r, Len(r)))

\* a result with warnings is flagged as an error
SuccessEnvelopeFlagged(rows, warns) ==
  [result |-> [rows |-> rows, hasMore |-> FALSE, nextOffset |-> JNull, warnings |-> warns],
   isError |-> Len(warns) > 0,
   error |-> JNull]

SuccessEnvelope(rows, warns) ==
  [result |-> [rows |-> rows, hasMore |-> FALSE, nextOffset |-> JNull, warnings |-> warns],
   isError |-> FALSE,
   error |-> JNull]

ErrorEnvelope(error) ==
  [result |-> JNull, isError |-> TRUE, error |-> JStr(formatError(error))]

\* result of the success path from the collected row arrays
FinalResult(arrays, warns, map) ==
  SuccessEnvelope(SortByDateDesc(MapSeq(Flat(arrays), LAMBDA r : Enrich(r, map))), warns)

\* the batch is over as soon as one of its tasks settled
AnySettled(batch) == \E t \in SeqRange(batch) : Settled(task[t])

AllSettled(batch) == \A t \in SeqRange(batch) : Settled(task[t])

\* tasks of a batch are called in order and each runs up to its first await
StartBatch(batch) ==
  /\ task' = [t \in Tasks |->
                IF t \in SeqRange(batch) THEN StartTask(t, args) ELSE task[t]]
  /\ requested' = [t \in Tasks |-> requested[t] \/ task'[t].st = "waiting"]

\* ------------------------------------------------------------------------
\* Actions
\* ------------------------------------------------------------------------
\* authenticate() is not awaited: the first batch starts at once
InvokeNoAwait ==
  /\ pc = "start"
  /\ pc' = "authenticate"
  /\ authCalls' = authCalls + 1
  /\ auth' = "pending"
  /\ StartBatch(Batch1)
  /\ UNCHANGED <<cli, inputs, harness, lastResp, warnings, rowArrays, accountNameMap, envelope>>

Invoke ==
  /\ pc = "start"
  /\ pc' = "authenticate"
  /\ authCalls' = authCalls + 1
  /\ auth' = "pending"
  /\ UNCHANGED <<cli, inputs, harness, task, requested, lastResp, warnings, rowArrays,
                 accountNameMap, envelope>>

\* authenticate() resolved: the first batch is started
AuthOk ==
  /\ pc = "authenticate"
  /\ pc' = "batch1"
  /\ auth' = "resolved"
  /\ StartBatch(Batch1)
  /\ UNCHANGED <<cli, inputs, harness, authCalls, lastResp, warnings, rowArrays,
                 accountNameMap, envelope>>

\* authenticate() rejected: the outer catch returns the error envelope
AuthFail ==
  /\ pc = "authenticate"
  /\ \E e \in errs : envelope' = ErrorEnvelope(e)
  /\ pc' = "done"
  /\ auth' = "rejected"
  /\ UNCHANGED <<cli, inputs, harness, authCalls, task, requested, lastResp, warnings,
                 rowArrays, accountNameMap>>

\* the remote call of task t returns a result
RespondOk(t) ==
  /\ task[t].st = "waiting"
  /\ task' = [task EXCEPT ![t] = OnResult(t, @, remote, args)]
  /\ lastResp' = [lastResp EXCEPT ![t] = OkResp]
  /\ UNCHANGED <<cli, inputs, harness, auth, pc, authCalls, requested, warnings, rowArrays,
                 accountNameMap, envelope>>

\* the remote call of task t throws
RespondErr(t) ==
  /\ task[t].st = "waiting"
  /\ \E e \in errs :
       /\ task' = [task EXCEPT ![t] = OnError(@, e)]
       /\ lastResp' = [lastResp EXCEPT ![t] = ErrResp(e)]
  /\ UNCHANGED <<cli, inputs, harness, auth, pc, authCalls, requested, warnings, rowArrays,
                 accountNameMap, envelope>>

\* the retry sleep of task t is over
Wake(t) ==
  /\ task[t].st = "sleeping"
  /\ task' = [task EXCEPT ![t] = OnWake(@)]
  /\ UNCHANGED <<cli, inputs, harness, auth, pc, authCalls, requested, lastResp, warnings,
                 rowArrays, accountNameMap, envelope>>

\* Promise.allSettled of batch 1 resolved: collect, then start batch 2
Batch1Settled ==
  /\ pc = "batch1"
  /\ AllSettled(Batch1)
  /\ rowArrays' = PushedRows("Invoices", task["Invoices"])
                  \o PushedRows("CreditNotes", task["CreditNotes"])
  /\ warnings' = PushedWarnings("Invoices", task["Invoices"])
                 \o PushedWarnings("CreditNotes", task["CreditNotes"])
                 \o PushedWarnings("Accounts", task["Accounts"])
  /\ accountNameMap' = IF task["Accounts"].st = "fulfilled"
                         THEN task["Accounts"].value.m ELSE EmptyMap
  /\ pc' = "batch2"
  /\ StartBatch(Batch2)
  /\ UNCHANGED <<cli, inputs, harness, auth, authCalls, lastResp, envelope>>

\* the manual-journal result is collected before the bank-transaction result
Batch2SettledJournalsFirst ==
  /\ pc = "batch2"
  /\ AllSettled(Batch2)
  /\ rowArrays' = rowArrays \o PushedRows("ManualJournals", task["ManualJournals"])
                  \o PushedRows("BankTransactions", task["BankTransactions"])
  /\ warnings' = warnings \o PushedWarnings("ManualJournals", task["ManualJournals"])
                 \o PushedWarnings("BankTransactions", task["BankTransactions"])
  /\ envelope' = FinalResult(rowArrays', warnings', accountNameMap)
  /\ pc' = "done"
  /\ UNCHANGED <<cli, inputs, harness, auth, authCalls, task, requested, lastResp, accountNameMap>>

\* Promise.allSettled of batch 2 resolved: collect, enrich, sort, return
Batch2Settled ==
  /\ pc = "batch2"
  /\ AllSettled(Batch2)
  /\ rowArrays' = rowArrays \o PushedRows("BankTransactions", task["BankTransactions"])
                  \o PushedRows("ManualJournals", task["ManualJournals"])
  /\ warnings' = warnings \o PushedWarnings("BankTransactions", task["BankTransactions"])
                 \o PushedWarnings("ManualJournals", task["ManualJournals"])
  /\ envelope' = FinalResult(rowArrays', warnings', accountNameMap)
  /\ pc' = "done"
  /\ UNCHANGED <<cli, inputs, harness, auth, authCalls, task, requested, lastResp, accountNameMap>>

\* ------------------------------------------------------------------------
\* Specifications
\* ------------------------------------------------------------------------
InitCommon ==
  /\ authCalls = 0
  /\ lastResp = [t \in Tasks |-> NoResp]
  /\ warnings = <<>>
  /\ rowArrays = <<>>
  /\ accountNameMap = EmptyMap
  /\ envelope = JUndef
  /\ auth = "none"

\* one call of listXeroAccountTransactions
Init ==
  /\ \E s \in Scenarios : args = s.args /\ remote = s.remote
  /\ errs = OrchErrors
  /\ pc = "start"
  /\ task = [t \in Tasks |-> IdleTask]
  /\ requested = [t \in Tasks |-> FALSE]
  /\ fnIn = JUndef
  /\ fnOut = <<>>
  /\ InitCommon
  /\ cli = NoCli

Next ==
  \/ Invoke
  \/ AuthOk
  \/ AuthFail
  \/ \E t \in Tasks : RespondOk(t)
  \/ \E t \in Tasks : RespondErr(t)
  \/ \E t \in Tasks : Wake(t)
  \/ Batch1Settled
  \/ Batch2Settled

Spec == Init /\ [][Next]_vars

\* every remote call is answered (one way or the other), every retry sleep
\* ends, and the continuations of the handler run
Fairness ==
  /\ WF_vars(Invoke)
  /\ WF_vars(AuthOk \/ AuthFail)
  /\ \A t \in Tasks : WF_vars(RespondOk(t) \/ RespondErr(t))
  /\ \A t \in Tasks : WF_vars(Wake(t))
  /\ WF_vars(Batch1Settled)
  /\ WF_vars(Batch2Settled)

SpecLive == Init /\ [][Next]_vars /\ Fairness

\* one call for a single source whose endpoint has 49 or 50 full pages
CappedSources == {"Invoices", "CreditNotes", "BankTransactions"}

CapTypeOf(t) ==
  CASE t = "Invoices" -> "ACCPAY"
    [] t = "CreditNotes" -> "ACCRECCREDIT"
    [] t = "BankTransactions" -> "CASHPAID"

CapRemote(t, full) ==
  Remote(Data(IF t = "Invoices" THEN full ELSE 0, <<INV_A>>),
         Data(IF t = "CreditNotes" THEN full ELSE 0, <<CN_A>>),
         Data(IF t = "BankTransactions" THEN full ELSE 0, <<BT_A>>),
         Data(0, <<MJ_A>>))

CapScenarios ==
  { [args |-> Args(JArr(<<"400">>), JUndef, JStr(CapTypeOf(t))), remote |-> CapRemote(t, full)]
      : t \in CappedSources, full \in {MAX_PAGES - 1, MAX_PAGES} }

InitCap ==
  /\ \E s \in CapScenarios : args = s.args /\ remote = s.remote
  /\ errs = OrchErrors
  /\ pc = "start"
  /\ task = [t \in Tasks |-> IdleTask]
  /\ requested = [t \in Tasks |-> FALSE]
  /\ fnIn = JUndef
  /\ fnOut = <<>>
  /\ InitCommon
  /\ cli = NoCli

SpecCap == InitCap /\ [][Next]_vars

\* one call of withRetry(fn) on a mocked operation that throws from `errs`
RetryMocks ==
  {{e} : e \in AllErrors} \cup {{E429_NUM5, E500}, {E429_NOHDR, E_TEXT}, {E429_JSON, E500_JSON}}

NoData == Remote(Data(0, <<>>), Data(0, <<>>), Data(0, <<>>), Data(0, <<>>))

InitRetry ==
  /\ args = Args(JUndef, JUndef, JUndef)
  /\ remote = NoData
  /\ errs \in RetryMocks
  /\ pc = "harness"
  /\ task = [t \in Tasks |-> IF t = "Probe" THEN FirstRequest(IdleTask, 0) ELSE IdleTask]
  /\ requested = [t \in Tasks |-> t = "Probe"]
  /\ fnIn = JUndef
  /\ fnOut = <<>>
  /\ InitCommon
  /\ cli = NoCli

NextRetry ==
  \/ RespondOk("Probe")
  \/ RespondErr("Probe")
  \/ Wake("Probe")

SpecRetry == InitRetry /\ [][NextRetry]_vars

\* the body of one extractor's loop over a page, on one document
MaxAmount == 1
MaxLines == 2
AmountChoices == {JUndef} \cup {JNum(n) : n \in -MaxAmount..MaxAmount}
TaxChoices == {JUndef, JNum(1)}
LineChoices ==
  {[accountCode |-> c, accountID |-> JUndef, lineAmount |-> amt, taxAmount |-> tax,
    description |-> JUndef] :
     c \in {JStr("400"), JStr("090")}, amt \in AmountChoices, tax \in TaxChoices}
MoreLines == {Line("400", 1, 0, JStr("more")), Line("090", -1, 1, JUndef)}
LineLists ==
  {JUndef, JArr(<<>>)}
  \cup {JArr(<<l>>) : l \in LineChoices}
  \cup {JArr(<<l>> \o rest) :
          l \in LineChoices, rest \in UNION {[1..n -> MoreLines] : n \in 1..(MaxLines - 1)}}

DocChoices(t) ==
  CASE t = "Invoices" ->
         {[type |-> ty, contact |-> JUndef, date |-> JDate(20240101),
           invoiceNumber |-> JStr("INV-1"), reference |-> JUndef, lineItems |-> ll] :
            ty \in {JStr("ACCPAY"), JStr("ACCREC"), JUndef}, ll \in LineLists}
    [] t = "CreditNotes" ->
         {[type |-> ty, contact |-> JUndef, date |-> JDate(20240101),
           creditNoteNumber |-> JStr("CN-1"), reference |-> JUndef, lineItems |-> ll] :
            ty \in {JStr("ACCRECCREDIT"), JStr("ACCPAYCREDIT")}, ll \in LineLists}
    [] t = "BankTransactions" ->
         {[type |-> ty, contact |-> JUndef, date |-> JDate(20240101), reference |-> JUndef,
           bankAccount |-> ba, total |-> tot, subTotal |-> sub, totalTax |-> tax,
           lineItems |-> ll] :
            ty \in {JStr("SPEND"), JStr("RECEIVE")},
            ba \in {JUndef, JObj([code |-> JStr("090"), name |-> JStr("Bank"),
                                  accountID |-> JStr("id-090")])},
            tot \in AmountChoices, sub \in AmountChoices, tax \in TaxChoices,
            ll \in LineLists}
    [] t = "ManualJournals" ->
         {[date |-> JDate(20240101), narration |-> JStr("adj"), journalLines |-> ll] :
            ll \in LineLists}

FilterChoices ==
  {Args(JUndef, JUndef, JUndef), Args(JArr(<<"400">>), JUndef, JUndef),
   Args(JArr(<<"090">>), JArr(<<>>), JUndef),
   Args(JArr(<<"400", "090">>), JUndef, JUndef)}

InitRows ==
  /\ args = Args(JUndef, JUndef, JUndef)
  /\ remote = NoData
  /\ errs = {}
  /\ pc = "loop"
  /\ task = [t \in Tasks |-> IdleTask]
  /\ requested = [t \in Tasks |-> FALSE]
  /\ \E t \in Extractors : \E d \in DocChoices(t) : \E a \in FilterChoices :
       fnIn = [kind |-> t, doc |-> d, args |-> a]
  /\ fnOut = <<>>
  /\ InitCommon
  /\ cli = NoCli

\* the rows one document adds, in the order they are pushed
ExtractRows ==
  /\ pc = "loop"
  /\ fnOut' = DocRows(fnIn.kind, fnIn.doc, fnIn.args)
  /\ pc' = "pushed"
  /\ UNCHANGED <<cli, inputs, fnIn, auth, authCalls, task, requested, lastResp, warnings,
                 rowArrays, accountNameMap, envelope>>

NextRows == ExtractRows

SpecRows == InitRows /\ [][NextRows]_vars

\* one call of lineMatchesAccount
LineCodeChoices == {JUndef, JStr(""), JStr("400"), JStr("090")}
LineIdChoices == {JUndef, JStr(""), JStr("id-400"), JStr("id-090")}
FilterCodeChoices ==
  {JUndef, JArr(<<>>), JArr(<<"400">>), JArr(<<"400", "090">>), JArr(<<"">>)}
FilterIdChoices ==
  {JUndef, JArr(<<>>), JArr(<<"id-400">>), JArr(<<"id-400", "id-090">>), JArr(<<"">>)}

InitMatch ==
  /\ args = Args(JUndef, JUndef, JUndef)
  /\ remote = NoData
  /\ errs = {}
  /\ pc = "match"
  /\ task = [t \in Tasks |-> IdleTask]
  /\ requested = [t \in Tasks |-> FALSE]
  /\ \E c \in LineCodeChoices, i \in LineIdChoices,
        fc \in FilterCodeChoices, fi \in FilterIdChoices :
       fnIn = [kind |-> "Matcher", lineAccountCode |-> c, lineAccountId |-> i,
               filterCodes |-> fc, filterIds |-> fi]
  /\ fnOut = <<>>
  /\ InitCommon
  /\ cli = NoCli

MatchLine ==
  /\ pc = "match"
  /\ fnOut' = <<lineMatchesAccount(fnIn.lineAccountCode, fnIn.lineAccountId,
                                   fnIn.filterCodes, fnIn.filterIds)>>
  /\ pc' = "matched"
  /\ UNCHANGED <<cli, inputs, fnIn, auth, authCalls, task, requested, lastResp, warnings,
                 rowArrays, accountNameMap, envelope>>

NextMatch == MatchLine

SpecMatch == InitMatch /\ [][NextMatch]_vars

\* ------------------------------------------------------------------------
\* xero-auth.mjs: one run of the token helper
\* ------------------------------------------------------------------------
\* requests other than the callback that the local server answers with 204
MaxStray == 2

\* bodies the token endpoint answers with
TokenBodies ==
  {JObj([access_token |-> JStr("at-new"), refresh_token |-> JStr("rt-new")]),
   JObj([access_token |-> JStr("at-new")])}
ErrorBody == JObj([error |-> JStr("invalid_grant")])
ExchangeBodies == TokenBodies \cup {ErrorBody}

\* .mcp.json: readable with credentials, readable without, or unreadable
ConfigChoices == {"ok", "nocreds", "unreadable"}
\* loadRefreshToken(): null without the file, else its trimmed content
RefreshFileChoices == {JNull, JStr(""), JStr("rt-old")}

\* refreshFlow: null on an error body, else the body
refreshFlow(body) == IF Truthy(Get(body, "error")) THEN JNull ELSE body

\* browserFlow up to the point where the server listens
browserFlow(c) == [c EXCEPT !.pc = "listening", !.browserStarted = TRUE]

\* updateBearerToken and saveRefreshToken at the end of main
SaveTokens(c, tokens) ==
  [c EXCEPT !.tokens = tokens,
            !.bearer = Get(tokens, "access_token"),
            !.refreshFile = IF Truthy(Get(tokens, "refresh_token"))
                              THEN Get(tokens, "refresh_token") ELSE @,
            !.pc = "done"]

cliRest == <<inputs, harness, pc, authCalls, task, requested, lastResp, warnings,
             rowArrays, accountNameMap, envelope, auth>>

\* --login does not keep main from the refresh-token exchange
CliMainIgnoreLogin ==
  /\ cli.pc = "start"
  /\ cli' = IF cli.config # "ok" THEN [cli EXCEPT !.pc = "fatal"]
            ELSE IF Truthy(cli.refreshFile)
              THEN [cli EXCEPT !.pc = "refresh", !.refreshTried = TRUE]
            ELSE browserFlow(cli)
  /\ UNCHANGED cliRest

\* main up to its first await: getCredentials, then the refresh-token
\* exchange or the browser flow
CliMain ==
  /\ cli.pc = "start"
  /\ cli' = IF cli.config # "ok" THEN [cli EXCEPT !.pc = "fatal"]
            ELSE IF ~cli.forceLogin /\ Truthy(cli.refreshFile)
              THEN [cli EXCEPT !.pc = "refresh", !.refreshTried = TRUE]
            ELSE browserFlow(cli)
  /\ UNCHANGED cliRest

\* the token endpoint answered the refresh-token exchange
CliRefreshResponds ==
  /\ cli.pc = "refresh"
  /\ \E body \in ExchangeBodies :
       LET tokens == refreshFlow(body)
       IN cli' = IF Truthy(tokens)
                   THEN SaveTokens([cli EXCEPT !.refreshOutcome = "tokens"], tokens)
                   ELSE browserFlow([cli EXCEPT !.refreshOutcome = "error"])
  /\ UNCHANGED cliRest

\* fetch or res.json() threw in the refresh-token exchange: main rejects
CliRefreshThrows ==
  /\ cli.pc = "refresh"
  /\ cli' = [cli EXCEPT !.refreshOutcome = "threw", !.pc = "fatal"]
  /\ UNCHANGED cliRest

\* a request that is not the callback with a code: 204, nothing else
CliStrayRequest ==
  /\ cli.pc = "listening"
  /\ cli.stray < MaxStray
  /\ cli' = [cli EXCEPT !.stray = @ + 1]
  /\ UNCHANGED cliRest

\* the callback with a code arrived: the code is exchanged
CliCallback ==
  /\ cli.pc = "listening"
  /\ cli' = [cli EXCEPT !.pc = "exchange"]
  /\ UNCHANGED cliRest

\* the token endpoint answered the authorization-code exchange
CliExchangeResponds ==
  /\ cli.pc = "exchange"
  /\ \E body \in ExchangeBodies :
       cli' = IF Truthy(Get(body, "error"))
                THEN [cli EXCEPT !.browserOutcome = "error", !.pc = "fatal"]
                ELSE SaveTokens([cli EXCEPT !.browserOutcome = "tokens"], body)
  /\ UNCHANGED cliRest

\* the authorization-code exchange threw: the flow rejects, main rejects
CliExchangeThrows ==
  /\ cli.pc = "exchange"
  /\ cli' = [cli EXCEPT !.browserOutcome = "threw", !.pc = "fatal"]
  /\ UNCHANGED cliRest

InitCli ==
  /\ args = Args(JUndef, JUndef, JUndef)
  /\ remote = NoData
  /\ errs = {}
  /\ pc = "cli"
  /\ task = [t \in Tasks |-> IdleTask]
  /\ requested = [t \in Tasks |-> FALSE]
  /\ fnIn = JUndef
  /\ fnOut = <<>>
  /\ InitCommon
  /\ \E f \in BOOLEAN, cfg \in ConfigChoices, rf \in RefreshFileChoices :
       cli = [NoCli EXCEPT !.pc = "start", !.forceLogin = f, !.config = cfg,
                           !.refreshFile = rf, !.hadToken = Truthy(rf)]

NextCli ==
  \/ CliMain
  \/ CliRefreshResponds
  \/ CliRefreshThrows
  \/ CliStrayRequest
  \/ CliCallback
  \/ CliExchangeResponds
  \/ CliExchangeThrows

SpecCli == InitCli /\ [][NextCli]_vars

\* ------------------------------------------------------------------------
\* Properties
\* ------------------------------------------------------------------------
FiveTasks == SeqRange(Batch1) \cup SeqRange(Batch2)

SourceName(t) ==
  CASE t = "Invoices" -> "Invoices"
    [] t = "CreditNotes" -> "Credit Notes"
    [] t = "Accounts" -> "Account name lookup"
    [] t = "BankTransactions" -> "Bank Transactions"
    [] t = "ManualJournals" -> "Manual Journals"

\* w is a failure warning that starts with the name of source t
NamesFailure(w, t) ==
  \E e \in errs :
    w \in {SourceName(t) \o " endpoint failed: " \o formatError(e),
           SourceName(t) \o " failed: " \o formatError(e)}

CountWarnings(ws, t) == Cardinality({i \in 1..Len(ws) : NamesFailure(ws[i], t)})

\* a row without the two fields the enrichment pass may rewrite
CoreRow(r) == [f \in DOMAIN r \ {"accountName", "relatedAccount"} |-> r[f]]
CountRow(rows, c) == Cardinality({i \in 1..Len(rows) : CoreRow(rows[i]) = c})

ReturnedRows(t) ==
  IF task[t].st # "fulfilled" THEN <<>>
  ELSE IF t = "ManualJournals" THEN task[t].value.rows
  ELSE task[t].value.a

SucceededRows ==
  ReturnedRows("Invoices") \o ReturnedRows("CreditNotes")
  \o ReturnedRows("BankTransactions") \o ReturnedRows("ManualJournals")

\* C1: after a successful authentication, whatever subset of the five tasks
\* failed, the call returns isError = FALSE, the result rows are exactly the
\* rows returned by the extractors that succeeded (failed sources add none),
\* and the warnings hold exactly one failure entry naming each failed task
\* and none naming a task that succeeded.
C1_PartialFailure ==
  (pc = "done" /\ auth = "resolved") =>
    /\ envelope.isError = FALSE
    /\ Len(envelope.result.rows) = Len(SucceededRows)
    /\ \A i \in 1..Len(SucceededRows) :
         CountRow(envelope.result.rows, CoreRow(SucceededRows[i]))
           = CountRow(SucceededRows, CoreRow(SucceededRows[i]))
    /\ \A t \in FiveTasks :
         CountWarnings(envelope.result.warnings, t)
           = IF task[t].st = "rejected" THEN 1 ELSE 0

\* the bank-transactions source failed, the other four tasks succeeded
C1_Witness ==
  /\ pc = "done"
  /\ task["BankTransactions"].st = "rejected"
  /\ \A t \in FiveTasks \ {"BankTransactions"} : task[t].st = "fulfilled"
  /\ Len(envelope.result.rows) >= 3
  /\ CountWarnings(envelope.result.warnings, "BankTransactions") = 1

\* C2: when authentication fails the call returns the error envelope
\* (result null, isError true) and no task is started and no endpoint is
\* asked; authenticate is called exactly once per invocation and has
\* resolved before any remote data request is issued.
C2_AuthFailure ==
  /\ auth = "rejected" =>
       /\ pc = "done"
       /\ envelope.result = JNull
       /\ envelope.isError = TRUE
       /\ \A t \in FiveTasks : ~requested[t] /\ task[t].st = "idle"
  /\ authCalls = IF pc = "start" THEN 0 ELSE 1
  /\ (\E t \in FiveTasks : requested[t] \/ task[t].st # "idle") => auth = "resolved"

C2_Witness == auth = "rejected" /\ pc = "done" /\ authCalls = 1 /\ envelope.isError

\* the two shapes of the result envelope
WellFormed(env) ==
  \/ env.result # JNull /\ env.isError = FALSE /\ env.error = JNull
  \/ env.result = JNull /\ env.isError = TRUE /\ env.error # JNull

\* the handler is waiting for something that will let it continue: the
\* authentication, or a task of the current batch that is not yet settled
\* (waiting for its endpoint or sleeping), or the batch is settled
Proceeds(batch) ==
  \A t \in SeqRange(batch) : task[t].st \in {"waiting", "sleeping", "fulfilled", "rejected"}

\* C3: every returned envelope is either {result, isError false, error null}
\* or {result null, isError true, error}; nothing is returned before the call
\* is over, and the call never ends otherwise than by returning: until it
\* returns it is authenticating or inside a batch whose tasks all are
\* pending or settled (none has escaped with an exception).
C3_EnvelopeShape ==
  /\ pc = "done" => WellFormed(envelope)
  /\ pc # "done" =>
       /\ envelope = JUndef
       /\ \/ pc \in {"start", "authenticate"}
          \/ pc = "batch1" /\ Proceeds(Batch1)
          \/ pc = "batch2" /\ Proceeds(Batch2)

\* all five tasks failed and the call still returned a success envelope
C3_Witness ==
  /\ pc = "done"
  /\ \A t \in FiveTasks : task[t].st = "rejected"
  /\ envelope.result # JNull
  /\ Len(envelope.result.warnings) = 5

\* C4: no bank-transactions or manual-journals request is issued, and
\* neither task is started, before all three batch-1 tasks have settled;
\* and once the call has returned after a successful authentication both
\* batch-2 tasks have run, whatever batch-1 tasks failed.
C4_BatchOrder ==
  /\ \A t \in SeqRange(Batch2) :
       (requested[t] \/ task[t].st # "idle") =>
         \A b \in {"Invoices", "CreditNotes", "Accounts"} : Settled(task[b])
  /\ (pc = "done" /\ auth = "resolved") =>
       \A t \in SeqRange(Batch2) :
         /\ Settled(task[t])
         /\ ~ReturnsEmpty(t, args.sourceType) => requested[t]

\* batch 2 is asking its endpoints although every batch-1 task failed
C4_Witness ==
  /\ \A b \in {"Invoices", "CreditNotes", "Accounts"} : task[b].st = "rejected"
  /\ \A t \in SeqRange(Batch2) : requested[t] /\ task[t].st = "waiting"

\* number of remote calls issued and not yet answered
Outstanding ==
  Cardinality({t \in FiveTasks : task[t].st = "waiting"})
  + (IF auth = "pending" THEN 1 ELSE 0)

\* C5: at most 3 remote requests are outstanding at any moment, and at most
\* 2 once batch 2 has started; a task sleeping before a retry has none.
C5_Concurrency ==
  /\ Outstanding <= 3
  /\ pc \in {"batch2", "done"} => Outstanding <= 2

\* three requests in flight in batch 1
C5_Witness == pc = "batch1" /\ Outstanding = 3

\* C6 as stated: one withRetry call invokes the operation at most 5 times
C6_AtMostFiveAttempts == \A t \in Tasks : task[t].calls <= 5

\* C6 (amended): one withRetry call invokes the operation at most 6 times,
\* the first attempt and at most 5 retries; when the 6th attempt fails the
\* call rejects with the very failure that attempt threw.
C6_AtMostSixAttempts ==
  /\ [](\A t \in Tasks : task[t].calls <= 6)
  /\ [][\A t \in Tasks :
          (task[t].st = "waiting" /\ task[t].calls = 6
           /\ task'[t].st \notin {"waiting", "fulfilled"}) =>
            /\ task'[t].st = "rejected"
            /\ lastResp'[t].kind = "err"
            /\ task'[t].reason = lastResp'[t].err]_vars

\* the retries are used up: rejected with the rate-limit failure
C6_Witness ==
  /\ task["Probe"].st = "rejected"
  /\ task["Probe"].reason \in RateLimitErrors
  /\ lastResp["Probe"] = ErrResp(task["Probe"].reason)

\* C7: a failure without a 429 response status (also a string that is not
\* valid JSON) ends the withRetry call at once: the call is rejected with
\* that same value, it is not sleeping and has not invoked the operation
\* again.
C7_OtherFailurePropagates ==
  \A t \in Tasks :
    (lastResp[t].kind = "err" /\ lastResp[t].err \in OtherErrors) =>
      /\ task[t].st = "rejected"
      /\ task[t].reason = lastResp[t].err

\* a string payload that is not JSON was thrown and propagated
C7_Witness ==
  /\ lastResp["Probe"] = ErrResp(E_TEXT)
  /\ task["Probe"].st = "rejected"
  /\ task["Probe"].reason = E_TEXT

\* seconds announced by the retry-after header of the payloads, 60 when the
\* header is absent or is not a number
ClaimedSeconds(e) ==
  CASE e \in {E429_STR5, E429_NUM5, E429_JSON} -> 5
    [] e \in {E429_STR0, E429_NUM0} -> 0
    [] e = E429_STATUS -> 30
    [] e \in {E429_ABC, E429_EMPTY, E429_NOHDR, E429_NOHEADERS} -> 60

\* C8: before every retry the wrapper sleeps retry-after * 1000 + 2000 ms
\* when the header is an integer number of seconds (0 included, string or
\* number) and 62000 ms when it is absent or unparsable.
C8_SleepDuration ==
  \A t \in Tasks :
    task[t].st = "sleeping" =>
      task[t].wait = ClaimedSeconds(lastResp[t].err) * 1000 + 2000

\* C9 as stated: 51 full pages of manual journals give truncated = true and
\* a warning that reports 51000 scanned journals
C9_Scanned51000 ==
  (pc = "done" /\ remote.ManualJournals.full = 51
   /\ task["ManualJournals"].st = "fulfilled") =>
    /\ task["ManualJournals"].value.truncated
    /\ \E i \in 1..Len(envelope.result.warnings) :
         envelope.result.warnings[i] = TruncationWarning(51000)

\* C9 (amended): 51 full pages of manual journals give truncated = true and
\* a warning that reports 50000 scanned journals, the 50 pages up to the
\* page cap.
C9_Scanned50000 ==
  (pc = "done" /\ remote.ManualJournals.full = 51
   /\ task["ManualJournals"].st = "fulfilled") =>
    /\ task["ManualJournals"].value.truncated
    /\ task["ManualJournals"].value.scanned = 50000
    /\ \E i \in 1..Len(envelope.result.warnings) :
         envelope.result.warnings[i] =
           "Manual Journals results may be incomplete: scanned 50000 journals but hit the pagination limit. Try narrowing the date range for complete results."

\* the call returned after the manual-journal extractor ran into the cap
C9_Witness ==
  /\ pc = "done"
  /\ remote.ManualJournals.full = 51
  /\ task["ManualJournals"].st = "fulfilled"
  /\ task["ManualJournals"].value.truncated
  /\ envelope.isError = FALSE

ExactlyOneSide(r) == (r.debit # JNull) # (r.credit # JNull)
BothSides(r) == r.debit # JNull /\ r.credit # JNull

\* C10 as stated: debit and credit are never both set and exactly one is
\* set whenever net is not zero, for every row
C10_OneSideByNet ==
  \A i \in 1..Len(fnOut) :
    /\ ~BothSides(fnOut[i])
    /\ fnOut[i].net # 0 => ExactlyOneSide(fnOut[i])

\* the last row is the synthetic row of the bank account
IsBankSide(i) ==
  /\ fnIn.kind = "BankTransactions"
  /\ i = Len(fnOut)
  /\ Len(fnOut) = 1 + Len(MatchingLines(ArrItems(fnIn.doc.lineItems),
                                         fnIn.args.accountCodes, fnIn.args.accountIds))

\* C10 (amended): debit and credit are never both set; exactly one is set
\* whenever net is not zero on every line row (invoice, credit note, bank
\* line item, manual journal), and whenever the transaction total (the
\* row's gross) is not zero on the bank-account-side row.
C10_OneSideByAmount ==
  \A i \in 1..Len(fnOut) :
    /\ ~BothSides(fnOut[i])
    /\ IF IsBankSide(i)
         THEN fnOut[i].gross # 0 <=> ExactlyOneSide(fnOut[i])
         ELSE fnOut[i].net # 0 <=> ExactlyOneSide(fnOut[i])

\* a bank-account-side row with a net but no side next to a line row
C10_Witness ==
  /\ pc = "pushed"
  /\ Len(fnOut) >= 2
  /\ IsBankSide(Len(fnOut))
  /\ fnOut[Len(fnOut)].net # 0
  /\ fnOut[Len(fnOut)].debit = JNull /\ fnOut[Len(fnOut)].credit = JNull
  /\ ExactlyOneSide(fnOut[1])

\* C11 as stated: gross = net + vat on every row an extractor emits, the
\* bank-account-side row included, whatever the upstream amounts are
C11_GrossIsNetPlusVat ==
  \A i \in 1..Len(fnOut) : fnOut[i].gross = fnOut[i].net + fnOut[i].vat

\* a SPEND transaction in fnIn whose bank account passes the filter and
\* whose only line item is on another account, for the transaction total
OnlyLine == ArrItems(fnIn.doc.lineItems)[1]
BankCode == Get(fnIn.doc.bankAccount, "code")
SpendOnOtherAccount ==
  /\ pc = "pushed"
  /\ fnIn.kind = "BankTransactions"
  /\ fnIn.doc.type = JStr("SPEND")
  /\ Truthy(BankCode)
  /\ lineMatchesAccount(BankCode, Get(fnIn.doc.bankAccount, "accountID"),
                        fnIn.args.accountCodes, fnIn.args.accountIds)
  /\ Len(ArrItems(fnIn.doc.lineItems)) = 1
  /\ Truthy(OnlyLine.accountCode)
  /\ OnlyLine.accountCode # BankCode
  /\ OnlyLine.lineAmount.t = "num"
  /\ OnlyLine.lineAmount = fnIn.doc.total

OnlyLineMatches ==
  lineMatchesAccount(OnlyLine.accountCode, OnlyLine.accountID,
                     fnIn.args.accountCodes, fnIn.args.accountIds)

\* the line-item row with a debit, then the bank row with a credit
LineThenBankRow ==
  /\ Len(fnOut) = 2
  /\ fnOut[1].accountCode = OnlyLine.accountCode
  /\ fnOut[1].debit = OnlyLine.lineAmount
  /\ fnOut[1].credit = JNull
  /\ fnOut[2].accountCode = BankCode
  /\ fnOut[2].credit = fnIn.doc.total
  /\ fnOut[2].debit = JNull
  /\ fnOut[2].relatedAccount = OnlyLine.accountCode

\* C12 as stated: such a transaction always gives the two rows
C12_TwoRows == SpendOnOtherAccount => LineThenBankRow

\* C12 (amended): such a transaction gives the two rows (line-item account
\* debited, bank account credited with the total and related to the line
\* item's account) when the total is positive and the line item's account
\* passes the account filter too; when the line item's account does not
\* pass the filter only the bank-account row is emitted.
C12_TwoRowsWhenLineMatches ==
  /\ (SpendOnOtherAccount /\ OnlyLineMatches /\ fnIn.doc.total.n > 0) => LineThenBankRow
  /\ (SpendOnOtherAccount /\ ~OnlyLineMatches) =>
       /\ Len(fnOut) = 1
       /\ fnOut[1].accountCode = BankCode
       /\ fnOut[1].relatedAccount = OnlyLine.accountCode

\* filter on both accounts: the two rows of the example
C12_Witness ==
  /\ SpendOnOtherAccount
  /\ fnIn.args.accountCodes = JArr(<<"400", "090">>)
  /\ fnIn.doc.total.n > 0
  /\ LineThenBankRow
  /\ fnOut[1].relatedAccount = JStr("090 - Bank")

\* C13 as stated: one bank transaction gives at most two rows
C13_AtMostTwoRows == fnIn.kind = "BankTransactions" => Len(fnOut) <= 2

\* line items of the transaction in fnIn that pass the account filter
MatchedLines ==
  MatchingLines(ArrItems(fnIn.doc.lineItems), fnIn.args.accountCodes, fnIn.args.accountIds)
BankAccountMatches ==
  lineMatchesAccount(BankCode, Get(fnIn.doc.bankAccount, "accountID"),
                     fnIn.args.accountCodes, fnIn.args.accountIds)

\* C13 (amended): one bank transaction gives one row for each line item
\* that passes the account filter, in line order, followed by at most one
\* synthetic row for the bank account, present exactly when the bank
\* account passes the filter: at most (number of line items + 1) rows.
C13_RowPerMatchingLine ==
  (pc = "pushed" /\ fnIn.kind = "BankTransactions") =>
    /\ Len(fnOut) = Len(MatchedLines) + (IF BankAccountMatches THEN 1 ELSE 0)
    /\ Len(fnOut) <= Len(ArrItems(fnIn.doc.lineItems)) + 1
    /\ \A i \in 1..Len(MatchedLines) :
         /\ fnOut[i].accountCode = OrElse(MatchedLines[i].accountCode, JNull)
         /\ fnOut[i].net = NumOr0(MatchedLines[i].lineAmount)
         /\ fnOut[i].description = OrElse(MatchedLines[i].description, JNull)
    /\ BankAccountMatches =>
         /\ fnOut[Len(fnOut)].accountCode = OrElse(BankCode, JNull)
         /\ fnOut[Len(fnOut)].gross = NumOr0(fnIn.doc.total)

\* two matching line items and the bank account: three rows
C13_Witness ==
  /\ pc = "pushed"
  /\ fnIn.kind = "BankTransactions"
  /\ Len(MatchedLines) = 2
  /\ BankAccountMatches
  /\ Len(fnOut) = 3
  /\ fnOut[3].accountCode = JStr("090")

SourceTypes == UNION {OwnTypes(t) : t \in Extractors}

\* C14 as stated: with any supplied sourceType (the empty string included)
\* an extractor that does not own it returns empty without a request, and
\* a value outside the seven types gives a success envelope with no rows
C14_UnownedTypeEmpty ==
  /\ \A t \in Extractors :
       (args.sourceType # JUndef /\ args.sourceType.s \notin OwnTypes(t)
        /\ task[t].st # "idle") =>
         /\ ~requested[t]
         /\ task[t].st = "fulfilled"
         /\ ReturnedRows(t) = <<>>
  /\ (pc = "done" /\ auth = "resolved" /\ args.sourceType # JUndef
      /\ args.sourceType.s \notin SourceTypes) =>
       /\ envelope.isError = FALSE
       /\ envelope.result.rows = <<>>

\* C14 (amended): with a non-empty sourceType an extractor that does not
\* own it returns empty without a request, and a non-empty value outside
\* the seven types gives a success envelope with no rows; the empty string
\* restricts nothing: every extractor asks its endpoint.
C14_NonEmptyUnownedTypeEmpty ==
  /\ \A t \in Extractors :
       (Truthy(args.sourceType) /\ args.sourceType.s \notin OwnTypes(t)
        /\ task[t].st # "idle") =>
         /\ ~requested[t]
         /\ task[t].st = "fulfilled"
         /\ ReturnedRows(t) = <<>>
  /\ (pc = "done" /\ auth = "resolved" /\ Truthy(args.sourceType)
      /\ args.sourceType.s \notin SourceTypes) =>
       /\ envelope.isError = FALSE
       /\ envelope.result.rows = <<>>
  /\ \A t \in Extractors :
       (args.sourceType = JStr("") /\ task[t].st # "idle") => requested[t]

\* an unknown type: the call returned no rows and asked no extractor endpoint
C14_Witness ==
  /\ pc = "done"
  /\ args.sourceType = JStr("NOSUCHTYPE")
  /\ envelope.isError = FALSE
  /\ envelope.result.rows = <<>>
  /\ \A t \in Extractors : ~requested[t] /\ task[t].st = "fulfilled"
  /\ requested["Accounts"]

\* what one run must return, from the frozen endpoint data and the final
\* outcome of each task alone: the pages up to the first short page or the
\* cap, read front to back
LastPageOf(data) == IF data.full + 1 <= MAX_PAGES THEN data.full + 1 ELSE MAX_PAGES
AllRowsOf(t) ==
  IF ReturnsEmpty(t, args.sourceType) THEN <<>>
  ELSE Flat([p \in 1..LastPageOf(remote[t]) |-> PageRows(t, remote[t], p, args)])
MergeOrder == <<"Invoices", "CreditNotes", "BankTransactions", "ManualJournals">>
WarningOrder == <<"Invoices", "CreditNotes", "Accounts", "BankTransactions", "ManualJournals">>
ExpectedMerged ==
  Flat([i \in 1..4 |-> IF task[MergeOrder[i]].st = "fulfilled"
                          THEN AllRowsOf(MergeOrder[i]) ELSE <<>>])
ExpectedWarningOf(t) ==
  IF task[t].st = "rejected"
    THEN <<SourceName(t) \o (IF t = "Accounts" THEN "" ELSE " endpoint") \o " failed: "
           \o formatError(task[t].reason)>>
  ELSE IF t = "ManualJournals" /\ ~ReturnsEmpty(t, args.sourceType)
          /\ remote[t].full >= MAX_PAGES
    THEN <<TruncationWarning(MAX_PAGES * MJ_PAGE_SIZE)>>
  ELSE <<>>
ExpectedWarnings == Flat([i \in 1..5 |-> ExpectedWarningOf(WarningOrder[i])])
ExpectedMap ==
  IF task["Accounts"].st = "fulfilled" THEN AccountMap(remote.Accounts) ELSE EmptyMap

\* position of a row's extractor in the merge, from its source label
SourceRank(r) ==
  CASE r.source \in {"Purchase Invoice", "Sales Invoice"} -> 1
    [] r.source \in {"Purchase Credit Note", "Sales Credit Note"} -> 2
    [] r.source \in {"Spend Money", "Receive Money"} -> 3
    [] r.source = "Manual Journal" -> 4

\* position of a warning's source in the fixed order
WarningRank(w) ==
  IF \E i \in 1..5 : NamesFailure(w, WarningOrder[i])
    THEN CHOOSE i \in 1..5 : NamesFailure(w, WarningOrder[i])
    ELSE 5

\* C15: with frozen endpoint responses the returned rows and warnings are a
\* function of those responses alone, whatever the order in which the tasks
\* of a batch completed or were delayed by retries: warnings come in the
\* order Invoices, Credit Notes, account-name lookup, Bank Transactions,
\* Manual Journals, and rows of equal date keep the order invoices, credit
\* notes, bank transactions, manual journals.
C15_Deterministic ==
  (pc = "done" /\ auth = "resolved") =>
    /\ envelope.result.warnings = ExpectedWarnings
    /\ envelope.result.rows =
         SortByDateDesc(MapSeq(ExpectedMerged, LAMBDA r : Enrich(r, ExpectedMap)))
    /\ \A i, j \in 1..Len(envelope.result.warnings) :
         i < j => WarningRank(envelope.result.warnings[i])
                    < WarningRank(envelope.result.warnings[j])
    /\ \A i, j \in 1..Len(envelope.result.rows) :
         (i < j /\ envelope.result.rows[i].date = envelope.result.rows[j].date) =>
           SourceRank(envelope.result.rows[i]) <= SourceRank(envelope.result.rows[j])

\* an invoice row and a credit-note row of one date, and the warnings of
\* the two batch-2 sources
C15_Witness ==
  /\ pc = "done"
  /\ auth = "resolved"
  /\ Len(envelope.result.warnings) = 2
  /\ NamesFailure(envelope.result.warnings[1], "BankTransactions")
  /\ NamesFailure(envelope.result.warnings[2], "ManualJournals")
  /\ \E i, j \in 1..Len(envelope.result.rows) :
       /\ i < j
       /\ envelope.result.rows[i].date = envelope.result.rows[j].date
       /\ SourceRank(envelope.result.rows[i]) = 1
       /\ SourceRank(envelope.result.rows[j]) = 2

\* C16: the rows of a success result are exactly the rows returned by the
\* extractors that succeeded, as a multiset (none lost, none duplicated),
\* in non-increasing order of date.
C16_SortedMerge ==
  (pc = "done" /\ auth = "resolved") =>
    LET out == envelope.result.rows
    IN /\ Len(out) = Len(SucceededRows)
       /\ \A i \in 1..Len(out) :
            CountRow(SucceededRows, CoreRow(out[i])) = CountRow(out, CoreRow(out[i]))
       /\ \A i \in 1..Len(SucceededRows) :
            CountRow(out, CoreRow(SucceededRows[i])) >= 1
       /\ \A i \in 1..(Len(out) - 1) : out[i].date >= out[i + 1].date

\* rows collected with dates 2024-01-01, 2024-03-15, 2024-02-10 in that
\* order come out as 2024-03-15, 2024-02-10, 2024-01-01
C16_Witness ==
  /\ pc = "done"
  /\ auth = "resolved"
  /\ \E i, j, k \in 1..Len(SucceededRows) :
       /\ i < j /\ j < k
       /\ SucceededRows[i].date = 20240101
       /\ SucceededRows[j].date = 20240315
       /\ SucceededRows[k].date = 20240210
  /\ \E i, j, k \in 1..Len(envelope.result.rows) :
       /\ i < j /\ j < k
       /\ envelope.result.rows[i].date = 20240315
       /\ envelope.result.rows[j].date = 20240210
       /\ envelope.result.rows[k].date = 20240101

\* the account filter is given and no line item, journal line or bank
\* account of the endpoint data passes it
LinesOf(t, doc) ==
  IF t = "ManualJournals" THEN ArrItems(doc.journalLines) ELSE ArrItems(doc.lineItems)
FilterGiven == Len(ArrItems(args.accountCodes)) + Len(ArrItems(args.accountIds)) > 0
FilterMatchesNothing ==
  /\ FilterGiven
  /\ \A t \in Extractors : \A doc \in SeqRange(remote[t].docs) \cup {FillerDoc(t)} :
       /\ \A i \in 1..Len(LinesOf(t, doc)) :
            ~lineMatchesAccount(LinesOf(t, doc)[i].accountCode, LinesOf(t, doc)[i].accountID,
                                args.accountCodes, args.accountIds)
       /\ t = "BankTransactions" =>
            ~lineMatchesAccount(Get(doc.bankAccount, "code"), Get(doc.bankAccount, "accountID"),
                                args.accountCodes, args.accountIds)

\* C17: with an account filter that matches nothing every extractor returns
\* no row, has fetched its first page, and asks for exactly the pages up to
\* the first short page or the page cap; the pages asked for are those of a
\* run without a filter (they depend on the endpoint data only).
C17_NonMatchingFilter ==
  /\ FilterMatchesNothing =>
       \A t \in Extractors :
         /\ task[t].st # "idle" => requested[t] /\ task[t].page >= 1
         /\ task[t].st = "fulfilled" =>
              /\ ReturnedRows(t) = <<>>
              /\ task[t].page = LastPageOf(remote[t])
  /\ \A t \in Extractors :
       /\ task[t].page <= LastPageOf(remote[t])
       /\ (task[t].st = "fulfilled" /\ ~ReturnsEmpty(t, args.sourceType)) =>
            task[t].page = LastPageOf(remote[t])

\* nothing matched: the call returned no row after reading both invoice pages
C17_Witness ==
  /\ pc = "done"
  /\ auth = "resolved"
  /\ FilterMatchesNothing
  /\ \A t \in Extractors : task[t].st = "fulfilled" /\ requested[t]
  /\ task["Invoices"].page = 2
  /\ task["BankTransactions"].page = 1
  /\ envelope.result.rows = <<>>

\* v is a string that occurs in the filter list
MemberOf(v, filter) == v.t = "str" /\ Includes(ArrItems(filter), v.s)
NoFilter == Len(ArrItems(fnIn.filterCodes)) = 0 /\ Len(ArrItems(fnIn.filterIds)) = 0

\* C18 as stated: the matcher returns true exactly when the line's code is
\* in filterCodes, or its id is in filterIds, or both filters are empty or
\* absent
C18_MatchIffMember ==
  pc = "matched" =>
    (fnOut[1] <=> \/ MemberOf(fnIn.lineAccountCode, fnIn.filterCodes)
                  \/ MemberOf(fnIn.lineAccountId, fnIn.filterIds)
                  \/ NoFilter)

\* C18 (amended): the matcher returns true exactly when the line's code is
\* a non-empty string in filterCodes, or its id is a non-empty string in
\* filterIds, or both filters are empty or absent (an empty code or id
\* never matches, even when the filter lists the empty string); so without
\* filters every line matches, also one with no code and no id, and with a
\* non-empty filter a line with neither a matching code nor a matching id
\* does not match.
C18_MatchIffNonEmptyMember ==
  pc = "matched" =>
    /\ fnOut[1] <=> \/ /\ fnIn.lineAccountCode # JStr("")
                        /\ MemberOf(fnIn.lineAccountCode, fnIn.filterCodes)
                     \/ /\ fnIn.lineAccountId # JStr("")
                        /\ MemberOf(fnIn.lineAccountId, fnIn.filterIds)
                     \/ NoFilter
    /\ NoFilter => fnOut[1]
    /\ (~NoFilter /\ ~MemberOf(fnIn.lineAccountCode, fnIn.filterCodes)
        /\ ~MemberOf(fnIn.lineAccountId, fnIn.filterIds)) => ~fnOut[1]

\* matched by its id although the code filter is set and misses the code
C18_Witness ==
  /\ pc = "matched"
  /\ fnIn.filterCodes = JArr(<<"400">>)
  /\ fnIn.lineAccountCode = JStr("090")
  /\ fnIn.filterIds = JArr(<<"id-400", "id-090">>)
  /\ fnIn.lineAccountId = JStr("id-090")
  /\ fnOut = <<TRUE>>

DebitTypes == {"ACCPAY", "ACCRECCREDIT"}
CreditTypes == {"ACCREC", "ACCPAYCREDIT"}
LabelOf(type) ==
  CASE type = "ACCPAY" -> "Purchase Invoice"
    [] type = "ACCREC" -> "Sales Invoice"
    [] type = "ACCRECCREDIT" -> "Sales Credit Note"
    [] type = "ACCPAYCREDIT" -> "Purchase Credit Note"

\* C19: on the rows of invoices and credit notes a positive lineAmount is a
\* debit for ACCPAY (Purchase Invoice) and ACCRECCREDIT (Sales Credit Note)
\* and a credit for ACCREC (Sales Invoice) and ACCPAYCREDIT (Purchase Credit
\* Note); a negative lineAmount goes to the opposite side with its
\* magnitude; relatedAccount is null.
C19_SideByDocumentType ==
  (pc = "pushed" /\ fnIn.kind \in {"Invoices", "CreditNotes"} /\ fnIn.doc.type.t = "str") =>
    /\ Len(fnOut) = Len(MatchedLines)
    /\ \A i \in 1..Len(fnOut) :
         LET amt == NumOr0(MatchedLines[i].lineAmount)
             onDebit == (fnIn.doc.type.s \in DebitTypes) = (amt > 0)
         IN /\ fnIn.doc.type.s \in DebitTypes \cup CreditTypes
            /\ fnOut[i].source = LabelOf(fnIn.doc.type.s)
            /\ fnOut[i].relatedAccount = JNull
            /\ amt # 0 =>
                 /\ fnOut[i].debit = IF onDebit THEN JNum(Abs(amt)) ELSE JNull
                 /\ fnOut[i].credit = IF onDebit THEN JNull ELSE JNum(Abs(amt))

\* a purchase credit note with a positive line (credit) and a negative
\* line (debit)
C19_Witness ==
  /\ pc = "pushed"
  /\ fnIn.kind = "CreditNotes"
  /\ fnIn.doc.type = JStr("ACCPAYCREDIT")
  /\ Len(fnOut) = 2
  /\ NumOr0(MatchedLines[1].lineAmount) > 0
  /\ fnOut[1].credit = JNum(1) /\ fnOut[1].debit = JNull
  /\ NumOr0(MatchedLines[2].lineAmount) < 0
  /\ fnOut[2].debit = JNum(1) /\ fnOut[2].credit = JNull
  /\ fnOut[1].source = "Purchase Credit Note"

\* main has decided between the two flows (or has exited)
CliDecided == cli.pc \notin {"start", "refresh"}
BearerWritten == cli.bearer # JStr("at-old")

\* C20 as stated: the browser flow is started exactly when --login is
\* given, or no refresh token is saved, or the refresh-token exchange did
\* not yield tokens; with --login no refresh is attempted; the bearer token
\* is written only after one of the flows gave tokens
C20_BrowserFlowExactly ==
  /\ CliDecided =>
       (cli.browserStarted <=> \/ cli.forceLogin
                               \/ ~cli.hadToken
                               \/ cli.refreshOutcome \in {"error", "threw"})
  /\ cli.forceLogin => ~cli.refreshTried
  /\ BearerWritten => Truthy(cli.tokens)

\* C20 (amended): once the client credentials were read from .mcp.json,
\* the browser flow is started exactly when --login is given, or no refresh
\* token is saved (no file, or a blank one), or the refresh-token exchange
\* was answered with an error body; when the credentials cannot be read, or
\* the refresh-token exchange throws, the run ends with a fatal error
\* without starting the browser flow.  With --login no refresh is
\* attempted, and the bearer token is written only after one of the two
\* flows gave tokens: a run that gets none leaves .mcp.json unchanged.
C20_BrowserFlowAfterCredentials ==
  /\ CliDecided =>
       (cli.browserStarted <=>
          /\ cli.config = "ok"
          /\ \/ cli.forceLogin
             \/ ~cli.hadToken
             \/ cli.refreshOutcome = "error")
  /\ ~CliDecided => ~cli.browserStarted
  /\ (cli.refreshTried /\ cli.refreshOutcome = "none") => cli.pc = "refresh"
  /\ cli.refreshTried => ~cli.forceLogin /\ cli.hadToken /\ cli.config = "ok"
  /\ (CliDecided /\ (cli.config # "ok" \/ cli.refreshOutcome = "threw")) =>
       cli.pc = "fatal" /\ ~cli.browserStarted
  /\ BearerWritten <=> Truthy(cli.tokens)
  /\ Truthy(cli.tokens) <=> (cli.refreshOutcome = "tokens" \/ cli.browserOutcome = "tokens")
  /\ cli.pc = "done" <=> BearerWritten

\* the refresh was refused, the browser login gave the tokens
C20_Witness ==
  /\ cli.pc = "done"
  /\ ~cli.forceLogin
  /\ cli.refreshTried
  /\ cli.refreshOutcome = "error"
  /\ cli.browserStarted
  /\ cli.browserOutcome = "tokens"
  /\ cli.bearer = JStr("at-new")
  /\ cli.refreshFile = JStr("rt-new")

\* C21: within one extractor run the pages are asked for one after the
\* other: the page number only ever grows by one, from a successful answer
\* to the current page that was a full page (or from the start, to page 1);
\* a run that returns has asked for the pages 1..k, k the first short page
\* or 50; no page above 50 is ever asked for.
C21_SequentialPages ==
  /\ [](\A t \in Extractors :
          /\ task[t].page <= MAX_PAGES
          /\ task[t].st \in {"waiting", "sleeping"} => task[t].page >= 1
          /\ (task[t].st = "fulfilled" /\ ~ReturnsEmpty(t, args.sourceType)) =>
               /\ task[t].page = LastPageOf(remote[t])
               /\ lastResp[t] = OkResp)
  /\ [][\A t \in Extractors :
          task'[t].page # task[t].page =>
            /\ task'[t].page = task[t].page + 1
            /\ task'[t].st = "waiting"
            /\ IF task[t].page = 0
                 THEN task[t].st = "idle"
                 ELSE /\ task[t].st = "waiting"
                      /\ lastResp'[t] = OkResp
                      /\ PageLen(remote[t], PageSizeOf(t), task[t].page) = PageSizeOf(t)]_vars

\* page 50 of the manual journals is asked for after 49 answered pages
C21_Witness ==
  /\ task["ManualJournals"].st = "waiting"
  /\ task["ManualJournals"].page = MAX_PAGES
  /\ task["ManualJournals"].scanned = (MAX_PAGES - 1) * MJ_PAGE_SIZE
  /\ lastResp["ManualJournals"] = OkResp

IsTruncationWarning(w) ==
  \E n \in 0..(MAX_PAGES + 1) : w = TruncationWarning(n * MJ_PAGE_SIZE)
TruncationWarnings(ws) == Cardinality({i \in 1..Len(ws) : IsTruncationWarning(ws[i])})

\* C22: fetchManualJournalRows returns truncated = true exactly when all 50
\* pages it fetched were full, and truncated = false when a short page
\* (at any position up to 50) ended its loop; the result has the truncation
\* warning exactly when truncated is true, and is a success either way.
C22_TruncatedAtCap ==
  /\ (task["ManualJournals"].st = "fulfilled"
      /\ ~ReturnsEmpty("ManualJournals", args.sourceType)) =>
       (task["ManualJournals"].value.truncated
          <=> remote.ManualJournals.full >= MAX_PAGES)
  /\ (pc = "done" /\ auth = "resolved") =>
       /\ envelope.isError = FALSE
       /\ TruncationWarnings(envelope.result.warnings) =
            IF task["ManualJournals"].st = "fulfilled"
               /\ task["ManualJournals"].value.truncated
              THEN 1 ELSE 0

\* page 50 was the short page: 50 pages fetched, not truncated, no warning
C22_Witness ==
  /\ pc = "done"
  /\ auth = "resolved"
  /\ remote.ManualJournals.full = MAX_PAGES - 1
  /\ task["ManualJournals"].st = "fulfilled"
  /\ task["ManualJournals"].page = MAX_PAGES
  /\ ~task["ManualJournals"].value.truncated
  /\ TruncationWarnings(envelope.result.warnings) = 0

Running(tk) == tk.st \in {"waiting", "sleeping"}

\* C23: every page fetch has its own retry budget: the request for a new
\* page starts at attempt 0 whatever was spent on earlier pages, a step of
\* one task leaves the counters of every other task alone, and a retry
\* asks again for the same page with the same predicate; the page number
\* never goes back and never skips a page.
C23_IndependentRetryBudget ==
  /\ [](\A t \in FiveTasks :
          Running(task[t]) =>
            /\ task[t].calls = task[t].attempt + 1
            /\ task[t].attempt <= MAX_RETRIES
            /\ t \in Extractors => task[t].where = WhereOf(t, args.sourceType))
  /\ [][\A t \in FiveTasks :
          /\ (Running(task'[t]) /\ task'[t].page # task[t].page) =>
               /\ task'[t].attempt = 0
               /\ task'[t].calls = 1
               /\ task'[t].page = task[t].page + 1
          /\ (task[t].st = "sleeping" /\ task'[t] # task[t]) =>
               /\ task'[t].st = "waiting"
               /\ task'[t].page = task[t].page
               /\ task'[t].where = task[t].where
               /\ task'[t].attempt = task[t].attempt + 1
          /\ (Running(task[t]) /\ Running(task'[t])) =>
               /\ task'[t].page >= task[t].page
               /\ task'[t].where = task[t].where
          /\ (Running(task[t]) /\ task'[t] # task[t]) =>
               \A u \in FiveTasks \ {t} : Running(task[u]) => task'[u] = task[u]]_vars

\* the credit-note call used up its retries; the invoice extractor, on its
\* second page, is at its last retry
C23_Witness ==
  /\ task["CreditNotes"].st = "rejected"
  /\ task["CreditNotes"].reason = E_RATE
  /\ task["Invoices"].st = "waiting"
  /\ task["Invoices"].page = 2
  /\ task["Invoices"].attempt = MAX_RETRIES
  /\ task["Invoices"].where = "Date>=DateTime(2024,1,1)&&Date<=DateTime(2024,12,31)&&Status!=\"DRAFT\"&&Status!=\"DELETED\""

RankOf(t) == CHOOSE i \in 1..4 : MergeOrder[i] = t

\* C24: an extractor that fails on a page after the first (a failure that
\* is not a rate limit, or a rate limit after the last retry) contributes
\* no row at all, the rows of its earlier pages included, and exactly one
\* warning.
C24_LatePageFailure ==
  (pc = "done" /\ auth = "resolved") =>
    \A t \in Extractors :
      (lastResp[t].kind = "err" /\ task[t].page > 1) =>
        /\ task[t].st = "rejected"
        /\ \A i \in 1..Len(envelope.result.rows) :
             SourceRank(envelope.result.rows[i]) # RankOf(t)
        /\ CountWarnings(envelope.result.warnings, t) = 1

\* page 1 of the invoices gave a row, page 2 failed after the retries were
\* used up; the other sources delivered
C24_Witness ==
  /\ pc = "done"
  /\ auth = "resolved"
  /\ task["Invoices"].st = "rejected"
  /\ task["Invoices"].page = 2
  /\ task["Invoices"].reason = E_RATE
  /\ PageRows("Invoices", remote.Invoices, 1, args) # <<>>
  /\ Len(envelope.result.rows) > 0
  /\ Len(envelope.result.warnings) = 1

\* C25: when every remote call and every retry sleep completes, the call
\* returns an envelope, whatever the endpoints answer (full pages without
\* end, rate limits again and again, failures).
C25_EventuallyReturns ==
  /\ [](\A t \in Tasks : task[t].page <= MAX_PAGES /\ task[t].attempt <= MAX_RETRIES)
  /\ <>[](pc = "done" /\ WellFormed(envelope))

\* returned after the manual journals ran into the page cap and another
\* source used up its retries on rate limits
C25_Witness ==
  /\ pc = "done"
  /\ auth = "resolved"
  /\ remote.ManualJournals.full > MAX_PAGES
  /\ task["ManualJournals"].st = "fulfilled"
  /\ task["ManualJournals"].page = MAX_PAGES
  /\ task["Accounts"].st = "rejected"
  /\ task["Accounts"].reason = E_RATE
  /\ WellFormed(envelope)

\* C26: an Invoices, Credit Notes or Bank Transactions extractor whose 50
\* fetched pages were all full returns the rows of these 50 pages as a
\* success, and the result has no warning for it: the warnings are the
\* failure warnings of the rejected tasks (and the manual-journal
\* truncation warning) and nothing else, as when page 50 was short.
CapReached(t) ==
  /\ task[t].st = "fulfilled"
  /\ ~ReturnsEmpty(t, args.sourceType)
  /\ remote[t].full >= MAX_PAGES

C26_SilentCap ==
  (pc = "done" /\ auth = "resolved") =>
    /\ envelope.isError = FALSE
    /\ envelope.result.warnings = ExpectedWarnings
    /\ \A t \in CappedSources :
         (task[t].st = "fulfilled" /\ ~ReturnsEmpty(t, args.sourceType)) =>
           /\ task[t].page = LastPageOf(remote[t])
           /\ task[t].value = JArr(AllRowsOf(t))
           /\ CountWarnings(envelope.result.warnings, t) = 0
           /\ \A i \in 1..Len(envelope.result.warnings) :
                IsTruncationWarning(envelope.result.warnings[i]) =>
                  task["ManualJournals"].st = "fulfilled"
                  /\ task["ManualJournals"].value.truncated

\* the invoices stopped at the cap after 50 full pages and the result has
\* rows and no warning at all
C26_Witness ==
  /\ pc = "done"
  /\ auth = "resolved"
  /\ CapReached("Invoices")
  /\ task["Invoices"].page = MAX_PAGES
  /\ lastResp["Invoices"].kind = "ok"
  /\ Len(envelope.result.rows) > 0
  /\ envelope.result.warnings = <<>>

====
